---- MODULE Spec2Model ----
(***************************************************************************)
(* MicroView RDMA metric-scraping plane.                                   *)
(*                                                                         *)
(* Collector (C): src/src/rdma-server.c, second translation unit of the    *)
(* file (lines 151-687): tick thread, CM event thread, one completion      *)
(* poller per connection.                                                  *)
(* Host agent (H): src/c/src/agent.c and src/src/rdma-agent.c.             *)
(*                                                                         *)
(* Threads are interleaved at the granularity of their accesses to shared  *)
(* memory. A critical section (lock, body, unlock) is one step: no thread  *)
(* blocks while it holds a mutex, except in pthread_cond_wait, which       *)
(* releases it. A step that touches only memory of its own thread is       *)
(* joined to the step before it.                                           *)
(***************************************************************************)
EXTENDS Integers, Sequences, FiniteSets, TLC

(* ------------------------------ bounds -------------------------------- *)
\* Connection slots of the model (the slot arrays of the program have
\* RDMA_MAX_CONNECTIONS entries; the tick thread walks all of them).
MaxConn == 2
\* Largest configured number of READs per batch (num_mr, argv[4]).
MaxMr == 2
\* Number of ticks the tick thread runs.
MaxTicks == 2
\* Number of peers that disconnect.
MaxDisc == 1
\* Largest value of the clock.
MaxTime == 1
\* Control messages that reach one session of the host agent.
MaxIn == 2
MaxRestarts == 1

Conns == 0 .. (MaxConn - 1)

(* --------------------------- program constants ------------------------ *)
MSG_MR == 0
MSG_DONE == 1
\* a tag that is neither MSG_MR nor MSG_DONE
MSG_OTHER == MSG_DONE + 1

SS_INIT == 0
SS_MR_SENT == 1
SS_RDMA_SENT == 2
SS_DONE_SENT == 3

RS_INIT == 0
RS_MR_RECV == 1
RS_DONE_RECV == 2

(* ------------------------------ data ---------------------------------- *)
\* Block sizes that may be configured on either side (argv), in pages.
BlockSizes == {1, 2}
DefaultBlock == CHOOSE b \in BlockSizes : \A c \in BlockSizes : b <= c

\* A descriptor in memory returned by malloc and not yet written, and the
\* contents such memory may have.
UnwrittenMr == [addr |-> -1, rkey |-> -1, length |-> -1]
GarbageMr == [addr |-> 0, rkey |-> 0, length |-> 0]

\* Descriptor of the page MR of the peer of connection k, registered with
\* length len (struct ibv_mr: addr, rkey, length).
PageMr(k, len) == [addr |-> 10 + k, rkey |-> 20 + k, length |-> len]

\* Control messages with another tag.
OtherMsgs == {[type |-> t, mr |-> GarbageMr] : t \in {MSG_DONE, MSG_OTHER}}

GarbageMrs == {GarbageMr, PageMr(0, 1)}

NoMsg == [type |-> MSG_OTHER, mr |-> GarbageMr]
NoWr == [opcode |-> "NONE", raddr |-> 0, rkey |-> 0, len |-> 0]

VARIABLES
  (* collector configuration *)
  num_mr,                 \* READs per batch
  block_size,             \* block size given to C
  h_block_size,           \* block size given to H
  stack,                  \* what the stack of a new poller thread holds
  audit,                  \* whether the accesses to shared variables are recorded
  (* collector process *)
  dead,                   \* the process has exited (die, exit) or crashed
  num_connections,
  num_active_connections,
  conn,                   \* struct connection per logical id
  recv_msg,               \* conn->recv_msg buffer
  qp,                     \* queue pair state
  rq,                     \* receives posted and not completed
  sq,                     \* READs posted and not completed
  sqwr,                   \* the work request of the READs in sq
  cq,                     \* completion queue
  read_remote,
  terminate,
  global_lm,              \* struct latency_meter global_lm
  lm,                     \* struct latency_meter lm of poller i
  (* tick thread *)
  tpc, ti,
  (* CM event thread *)
  cmq, cmpc, cmtmp,
  (* pollers *)
  ppc, num_read_completed, ret, wr,
  (* peers and transport *)
  reqs, pst, psent, sentMsg,
  (* host agent process *)
  alive,                  \* the process of pod p exists
  pod_pids, cp_conn, num_pods,   \* struct control_plane cp
  hst,                    \* state of the CM id of the session of pod p
  hq,                     \* CM events of the session of pod p not yet handled
  hconn,                  \* struct connection of the session of pod p
  hcid,                   \* the id the collector gives to the connection of pod p
  hdead,                  \* the host agent process has exited
  wpc, wi,                \* watcher thread
  hres,                   \* QP, MRs, buffers, page and CM id of the session of pod p
  hcs,                    \* send_state, recv_state, connected of hconn
  hppc, hret,             \* poller of the session of pod p: position, ret
  hcq,                    \* completions of the session of pod p not yet polled
  hrq,                    \* receives posted on the QP of the session of pod p
  hrecv_msg,              \* tag of the message in conn->recv_msg on H
  hsent,                  \* control messages the session of pod p has posted
  hin,                    \* control messages delivered to the session of pod p
  herr,                   \* sessions whose poller was given a failed completion
  hexit,                  \* what ended the host agent process
  hnum_connections,       \* num_connections of the host agent
  hlog,                   \* calls and stores recorded by the host agent
  (* clock *)
  now,
  (* history *)
  rounds,                 \* ticks started (global_lm reset)
  ticksAt,                \* times the tick thread set read_remote[i]
  posted,                 \* batches posted on connection i
  fresh,                  \* times the tick thread turned read_remote[i] from 0 to 1
  batchRound,             \* rounds when the current batch was posted
  counted,                \* times i was counted in num_finished this round
  reads,                  \* READ completions handled on connection i
  sampledAt,              \* rounds when lm of poller i took its last sample
  hist                    \* flags and counters recorded by the handlers

cfgVars == <<num_mr, block_size, h_block_size, stack, audit>>
connVars == <<conn, recv_msg, qp, rq, sq, sqwr, cq>>
syncVars == <<read_remote, terminate>>
tickVars == <<tpc, ti>>
cmVars == <<cmq, cmpc, cmtmp>>
pollVars == <<ppc, num_read_completed, ret, wr>>
peerVars == <<reqs, pst, psent, sentMsg>>
histVars == <<rounds, ticksAt, posted, fresh, batchRound, counted, reads,
             sampledAt, hist>>
hVars == <<alive, pod_pids, cp_conn, num_pods, hst, hq, hconn, hcid, hdead,
          wpc, wi, hres, hcs, hppc, hret, hcq, hrq, hrecv_msg, hsent, hin,
          herr, hexit, hnum_connections, hlog>>

vars == <<cfgVars, dead, num_connections, num_active_connections, connVars,
          syncVars, global_lm, lm, tickVars, cmVars, pollVars, peerVars, now,
          histVars, hVars>>

(* ------------------------------ helpers ------------------------------- *)
\* clock_gettime(CLOCK_REALTIME, ...)
ClockGettime == now

\* record_time_elapsed: the elapsed time is stored at samples[num_samples++],
\* the buffer being doubled when num_samples == size.
RecordTimeElapsed(m) ==
  [m EXCEPT !.size = IF m.num_samples = m.size THEN 2 * m.size ELSE m.size,
            !.num_samples = m.num_samples + 1,
            !.last = ClockGettime - m.start]

\* record_time_elapsed, line 613: the store falls outside the buffer.
OutOfBuffer(m) == m.num_samples < 0 \/ m.num_samples > m.size

\* Connections whose poller is running (counted in num_active_connections).
Active == {i \in Conns : ppc[i] \notin {"idle", "done"}}

\* The mutexes of rdma-server.c: lock[i] and lock_global_lm.
Lock(i) == <<"lock", i>>
GlobalLock == <<"lock_global_lm", 0>>

\* The threads of the collector.
TickThread == <<"tick", 0>>
CmThread == <<"on_event", 0>>
Poller(i) == <<"poll_cq", i>>

\* An access o of thread w to the object name[k] while w holds the mutexes
\* held.
Access(name, k, o, w, held) ==
  [obj |-> <<name, k>>, op |-> o, by |-> w, held |-> held]

\* The store of v in a flag.
Store(v) == IF v = 1 THEN "write1" ELSE "write0"

\* The fields of global_lm, and the accesses of thread w to the fields fs.
GlobalFields == {"num_finished", "start", "samples", "size", "num_samples"}

GlobalAccess(fs, w, held) == {Access(f, 0, "access", w, held) : f \in fs}

\* The record h with the accesses recs added, when accesses are recorded.
Note(h, recs) == IF audit THEN [h EXCEPT !.acc = @ \cup recs] ELSE h

\* With one region per connection the pollers of the other variant of the
\* collector (part_005) take the same steps as those of rdma-server.c: its
\* counters are then carried along in the record h.
Compared == audit /\ num_mr = 1

\* part_005 poll_cq, line 287.
IntLeast32Min == -2147483647 - 1

\* part_005 tick, line 102: the counter is restarted.
AltTick(h) == IF Compared THEN [h EXCEPT !.alt_finished = 0] ELSE h

\* part_005 build_connection, line 202.
AltBuilt(h) ==
  IF Compared THEN [h EXCEPT !.alt_connections = @ + 1] ELSE h

\* part_005 on_completion, line 354, after the increment of line 353.
AltRoundComplete(h) == h.alt_finished + 1 = h.alt_connections

\* part_005 on_completion, lines 352-359, at a READ completion at which
\* rdma-server.c records a global sample (rec) or does not.
AltCount(h, rec) ==
  IF Compared
  THEN [h EXCEPT !.alt_finished = @ + 1,
                 !.differ = @ \/ (rec # AltRoundComplete(h))]
  ELSE h

\* part_005 poll_cq, lines 284-296: the first poller that exits writes the
\* global file and marks the counter.
AltExit(h) ==
  IF Compared /\ h.alt_finished >= 0
  THEN [h EXCEPT !.alt_finished = IntLeast32Min] ELSE h

\* A thread that holds no mutex.
HoldsNone(i) == {}

\* tick, lines 281 and 285: the mutex the tick thread holds at line 283.
TickHolds(i) == {Lock(i)}

\* A poller that takes lock[i] inside the critical section of
\* lock_global_lm.
HoldsBoth(i) == {Lock(i), GlobalLock}

\* on_completion, lines 578 and 584: the mutex poller i holds at lines
\* 579-583.
PollerHolds(i) == {Lock(i)}

\* A step of a teardown: the call op made on the object name[k] (k = 0 for
\* an object that is no element of an array).
Ev(o, name, k) == [op |-> o, obj |-> <<name, k>>]

\* The MRs a teardown log deregisters and the buffers it frees.
Deregistered(log) ==
  {log[n].obj : n \in {m \in DOMAIN log : log[m].op = "dereg_mr"}}

Freed(log) ==
  {log[n].obj : n \in {m \in DOMAIN log : log[m].op = "free"}}

\* rdma-server.c register_memory: the MRs registered for a connection
\* (send_mr, recv_mr, rdma_local_mr[0..N-1], here numbered from 1).
ServerMrs ==
  {<<"send_mr", 0>>, <<"recv_mr", 0>>}
    \cup {<<"rdma_local_mr", k>> : k \in 1 .. num_mr}

\* rdma-server.c register_memory, lines 630-651: the access flags each MR is
\* registered with.
ServerAccess(m) == IF m = <<"send_mr", 0>> THEN {} ELSE {"LOCAL_WRITE"}

\* rdma-server.c register_memory: the buffers allocated for a connection
\* (the two messages, the two arrays, and the N data blocks).
ServerBufs ==
  {<<"send_msg", 0>>, <<"recv_msg", 0>>, <<"rdma_local_region", 0>>,
   <<"rdma_local_mr", 0>>}
    \cup {<<"rdma_local_region", k>> : k \in 1 .. num_mr}

\* destroy_connection, lines 672-675: for each block, deregister its MR and
\* free its buffer.
RECURSIVE LocalBlocksTeardown(_, _)
LocalBlocksTeardown(k, n) ==
  IF k > n THEN <<>>
  ELSE <<Ev("dereg_mr", "rdma_local_mr", k),
         Ev("free", "rdma_local_region", k)>>
         \o LocalBlocksTeardown(k + 1, n)

\* destroy_connection of the collector, lines 667-684, in program order.
ServerTeardown ==
  <<Ev("destroy_qp", "qp", 0),
    Ev("dereg_mr", "send_mr", 0),
    Ev("dereg_mr", "recv_mr", 0)>>
    \o LocalBlocksTeardown(1, num_mr)
    \o <<Ev("free", "send_msg", 0),
         Ev("free", "recv_msg", 0),
         Ev("free", "rdma_local_region", 0),
         Ev("free", "rdma_local_mr", 0),
         Ev("destroy_id", "id", 0),
         Ev("free_conn", "conn", 0)>>

\* lm.size / global_lm.size initial value
InitialSize == 100

\* poll_cq declares its meter on the stack and sets size and samples only:
\* num_samples starts with whatever the stack of the new thread holds, a
\* value inside the buffer or one beyond it. The pollers of one run find
\* the same content.
StackGarbage == {0, InitialSize + 1}

(* ------------------------------- Init --------------------------------- *)
InitCollector ==
  /\ stack \in StackGarbage
  /\ dead = FALSE
  /\ num_connections = 0
  /\ num_active_connections = 0
  /\ conn = [i \in Conns |-> [st |-> "none", recv_state |-> RS_INIT,
                              send_state |-> SS_INIT, connected |-> 0,
                              peer_mr |-> UnwrittenMr,
                              mrs |-> {}, bufs |-> {}, access |-> <<>>]]
  /\ recv_msg = [i \in Conns |-> NoMsg]
  /\ qp = [i \in Conns |-> "none"]
  /\ rq = [i \in Conns |-> 0]
  /\ sq = [i \in Conns |-> 0]
  /\ sqwr = [i \in Conns |-> NoWr]
  /\ cq = [i \in Conns |-> <<>>]
  /\ read_remote = [i \in Conns |-> 0]
  /\ terminate = [i \in Conns |-> 0]
  /\ global_lm = [num_finished |-> 0, start |-> 0, num_samples |-> 0,
                  size |-> 0, alloc |-> FALSE, last |-> 0]
  /\ lm = [i \in Conns |-> [start |-> 0, num_samples |-> 0, size |-> 0, last |-> 0]]
  /\ tpc = "sleep"
  /\ ti = 0
  /\ cmq = <<>>
  /\ cmpc = "idle"
  /\ cmtmp = 0
  /\ ppc = [i \in Conns |-> "idle"]
  /\ num_read_completed = [i \in Conns |-> 0]
  /\ ret = [i \in Conns |-> 0]
  /\ wr = [i \in Conns |-> NoWr]
  /\ reqs = 0
  /\ pst = [i \in Conns |-> "none"]
  /\ psent = [i \in Conns |-> FALSE]
  /\ sentMsg = [i \in Conns |-> NoMsg]
  /\ now = 0
  /\ rounds = 0
  /\ ticksAt = [i \in Conns |-> 0]
  /\ posted = [i \in Conns |-> 0]
  /\ fresh = [i \in Conns |-> 0]
  /\ batchRound = [i \in Conns |-> 0]
  /\ counted = [i \in Conns |-> 0]
  /\ reads = [i \in Conns |-> 0]
  /\ sampledAt = [i \in Conns |-> 0]
  /\ hist = [uaf |-> {}, postTd |-> {}, err |-> {}, buildFail |-> {},
             acc |-> {}, exits |-> {}, tdw |-> {}, stale |-> FALSE,
             badRec |-> FALSE,
             grec |-> 0, samples |-> [i \in Conns |-> 0],
             alt_finished |-> 0, alt_connections |-> 0,
             differ |-> FALSE,
             td |-> [i \in Conns |-> <<>>],
             roundDone |-> [i \in Conns |-> FALSE]]

InitAgent ==
  /\ alive = [p \in Conns |-> TRUE]
  /\ pod_pids = [s \in Conns |-> 0]
  /\ cp_conn = [s \in Conns |-> 0]
  /\ num_pods = 0
  /\ hst = [p \in Conns |-> "none"]
  /\ hq = [p \in Conns |-> <<>>]
  /\ hconn = [p \in Conns |-> "none"]
  /\ hcid = [p \in Conns |-> 0]
  /\ hdead = FALSE
  /\ wpc = "sleep"
  /\ wi = 0
  /\ hres = [p \in Conns |-> [qp |-> "none", mrs |-> {}, bufs |-> {},
                               access |-> <<>>,
                               page |-> "none", id |-> "none", td |-> <<>>]]
  /\ hcs = [p \in Conns |-> [send_state |-> SS_INIT, recv_state |-> RS_INIT,
                              connected |-> 0]]
  /\ hppc = [p \in Conns |-> "idle"]
  /\ hret = [p \in Conns |-> 0]
  /\ hcq = [p \in Conns |-> <<>>]
  /\ hrq = [p \in Conns |-> 0]
  /\ hrecv_msg = [p \in Conns |-> MSG_OTHER]
  /\ hsent = [p \in Conns |-> <<>>]
  /\ hin = [p \in Conns |-> 0]
  /\ herr = {}
  /\ hexit = "none"
  /\ hnum_connections = 0
  /\ hlog = [steps |-> [p \in Conns |-> <<>>], disc |-> {}, idx |-> {},
             lid |-> {}, restarts |-> 0]

\* The collector is started with MaxMr regions to read, both sides with the
\* same block size.
Init ==
  /\ audit = FALSE
  /\ num_mr = MaxMr
  /\ block_size = DefaultBlock
  /\ h_block_size = block_size
  /\ InitCollector
  /\ InitAgent

(* ---------------------------- tick thread ----------------------------- *)
\* tick, lines 272-277: the sleep ends; under lock_global_lm the counter and
\* the clock of the global round are restarted.
TickReset ==
  /\ ~dead
  /\ tpc = "sleep"
  /\ rounds < MaxTicks
  /\ global_lm' = [global_lm EXCEPT !.num_finished = 0, !.start = ClockGettime]
  /\ tpc' = "slot"
  /\ ti' = 0
  /\ rounds' = rounds + 1
  /\ counted' = [i \in Conns |-> 0]
  /\ hist' = Note([AltTick(hist) EXCEPT !.grec = 0,
                                 !.roundDone = [i \in Conns |-> FALSE]],
                   GlobalAccess({"num_finished", "start"}, TickThread,
                                {GlobalLock}))
  /\ UNCHANGED <<cfgVars, hVars, dead, num_connections, num_active_connections,
                 connVars, syncVars, lm, cmVars, pollVars, peerVars, now,
                 ticksAt, posted, fresh, batchRound, reads, sampledAt>>

\* tick, line 283: the value the tick thread stores in the flag.
TickFlag(old) == 1

\* A signal that wakes no thread.
NotSignalled(pc) == pc

\* tick, line 284: pthread_cond_signal wakes the poller if it waits in
\* pthread_cond_wait; the poller then takes the mutex again.
Signalled(pc) == IF pc = "cwait" THEN "lock" ELSE pc

\* tick, lines 281-285, slot ti: under lock[ti] set the flag and signal the
\* condition variable, which wakes the poller if it waits.
TickSignal ==
  /\ ~dead
  /\ tpc = "slot"
  /\ read_remote' = [read_remote EXCEPT ![ti] = TickFlag(@)]
  /\ ppc' = [ppc EXCEPT ![ti] = Signalled(@)]
  /\ ticksAt' = [ticksAt EXCEPT ![ti] = @ + 1]
  /\ fresh' = [fresh EXCEPT ![ti] = IF read_remote[ti] = 0 THEN @ + 1 ELSE @]
  /\ hist' = Note(hist, {Access("read_remote", ti,
                                  Store(TickFlag(read_remote[ti])),
                                  TickThread, TickHolds(ti))})
  /\ ti' = ti + 1
  /\ tpc' = IF ti + 1 = MaxConn THEN "sleep" ELSE "slot"
  /\ UNCHANGED <<cfgVars, hVars, dead, num_connections, num_active_connections,
                 connVars, terminate, global_lm, lm, cmVars,
                 num_read_completed, ret, wr, peerVars, now, rounds, posted,
                 batchRound, counted, reads, sampledAt>>

(* -------------------------- CM event thread --------------------------- *)

CmHead(e) == cmpc = "idle" /\ cmq # <<>> /\ Head(cmq).ev = e

\* on_connect_request / build_connection, lines 348-376: build_context (PD,
\* CQ, completion channel, poller thread), QP, struct connection,
\* register_memory, post_receives, num_connections++, and the read of
\* num_active_connections of the increment at line 376.
CmConnectRequest ==
  /\ ~dead
  /\ CmHead("CONNECT_REQUEST")
  /\ IF num_connections >= MaxConn
     THEN /\ dead' = TRUE
          /\ UNCHANGED <<num_connections, connVars, lm, cmVars, pollVars>>
     ELSE LET i == num_connections IN
          /\ lm' = [lm EXCEPT ![i] = [start |-> 0, num_samples |-> stack,
                                      size |-> InitialSize, last |-> 0]]
          /\ ppc' = [ppc EXCEPT ![i] = "poll"]
          /\ num_read_completed' = [num_read_completed EXCEPT ![i] = num_mr]
          /\ ret' = [ret EXCEPT ![i] = 0]
          /\ qp' = [qp EXCEPT ![i] = "init"]
          /\ conn' = [conn EXCEPT ![i] = [st |-> "live", recv_state |-> RS_INIT,
                                          send_state |-> SS_INIT, connected |-> 0,
                                          peer_mr |-> UnwrittenMr,
                                          mrs |-> ServerMrs,
                                          bufs |-> ServerBufs,
                                          access |-> [m \in ServerMrs |->
                                                        ServerAccess(m)]]]
          /\ rq' = [rq EXCEPT ![i] = 1]
          /\ num_connections' = num_connections + 1
          /\ cmtmp' = num_active_connections
          /\ cmpc' = "build2"
          /\ UNCHANGED <<dead, recv_msg, sq, sqwr, cq, cmq, wr>>
  /\ UNCHANGED <<cfgVars, hVars, num_active_connections, syncVars, global_lm,
                 tickVars, peerVars, now, histVars>>

\* The calls of build_context, build_connection and register_memory whose
\* result goes through TEST_Z or TEST_NZ.
BuildCalls ==
  {"ibv_alloc_pd", "ibv_create_comp_channel", "ibv_create_cq",
   "ibv_req_notify_cq", "pthread_create", "rdma_create_qp", "ibv_reg_mr"}

\* on_connect_request / build_connection, lines 344-373, when one of the
\* calls fails: TEST_Z / TEST_NZ call die, which calls exit(EXIT_FAILURE).
CmBuildFails ==
  /\ ~dead
  /\ CmHead("CONNECT_REQUEST")
  /\ num_connections < MaxConn
  /\ \E c \in BuildCalls :
       hist' = [hist EXCEPT !.buildFail = @ \cup {<<Head(cmq).id, c>>}]
  /\ dead' = TRUE
  /\ UNCHANGED <<cfgVars, hVars, num_connections, num_active_connections,
                 connVars, syncVars, global_lm, lm, tickVars, cmVars, pollVars,
                 peerVars, now, rounds, ticksAt, posted, fresh, batchRound,
                 counted, reads, sampledAt>>

\* build_connection, lines 376-382 (no mutex is taken), and rdma_accept,
\* line 301.
CmBuildAccept ==
  /\ ~dead
  /\ cmpc = "build2"
  /\ num_active_connections' = cmtmp + 1
  /\ global_lm' = IF cmtmp + 1 = 1
                  THEN [global_lm EXCEPT !.size = InitialSize, !.alloc = TRUE]
                  ELSE global_lm
  /\ hist' = IF cmtmp + 1 = 1
             THEN Note(AltBuilt(hist),
                       GlobalAccess({"size", "samples"}, CmThread, {}))
             ELSE AltBuilt(hist)
  /\ qp' = [qp EXCEPT ![Head(cmq).id] = "rts"]
  /\ pst' = [pst EXCEPT ![Head(cmq).id] = "accepted"]
  /\ cmq' = Tail(cmq)
  /\ cmpc' = "idle"
  /\ UNCHANGED <<cfgVars, hVars, dead, num_connections, conn, recv_msg, rq, sq, sqwr,
                 cq, syncVars, lm, tickVars, cmtmp, pollVars, reqs, psent,
                 sentMsg, now, rounds, ticksAt, posted, fresh, batchRound,
                 counted, reads, sampledAt>>

\* on_connection: on_connect sets conn->connected.
CmEstablished ==
  /\ ~dead
  /\ CmHead("ESTABLISHED")
  /\ conn' = [conn EXCEPT ![Head(cmq).id].connected = 1]
  /\ cmq' = Tail(cmq)
  /\ UNCHANGED <<cfgVars, hVars, dead, num_connections, num_active_connections,
                 recv_msg, qp, rq, sq, sqwr, cq, syncVars, global_lm, lm,
                 tickVars, cmpc, cmtmp, pollVars, peerVars, now, histVars>>

\* on_disconnect / destroy_connection, lines 663-665: terminate[i] = 1 under
\* lock[i].
CmTerminate ==
  /\ ~dead
  /\ CmHead("DISCONNECTED")
  /\ terminate' = [terminate EXCEPT ![Head(cmq).id] = 1]
  /\ cmpc' = "destroy"
  /\ hist' = IF audit
             THEN [Note(hist, {Access("terminate", Head(cmq).id, Store(1),
                                      CmThread, {Lock(Head(cmq).id)})})
                     EXCEPT !.tdw = IF ppc[Head(cmq).id] = "cwait"
                                    THEN @ \cup {Head(cmq).id} ELSE @]
             ELSE hist
  /\ UNCHANGED <<cfgVars, hVars, dead, num_connections, num_active_connections,
                 connVars, read_remote, global_lm, lm, tickVars, cmq, cmtmp,
                 pollVars, peerVars, now, rounds, ticksAt, posted, fresh,
                 batchRound, counted, reads, sampledAt>>

\* destroy_connection, lines 667-684: rdma_destroy_qp (work requests still
\* queued on the QP are dropped with it), deregister the MRs, free the
\* buffers, rdma_destroy_id, free(conn).
CmDestroy ==
  /\ ~dead
  /\ cmpc = "destroy"
  /\ qp' = [qp EXCEPT ![Head(cmq).id] = "destroyed"]
  /\ sq' = [sq EXCEPT ![Head(cmq).id] = 0]
  /\ rq' = [rq EXCEPT ![Head(cmq).id] = 0]
  /\ conn' = [conn EXCEPT
                ![Head(cmq).id].st = "freed",
                ![Head(cmq).id].mrs = @ \ Deregistered(ServerTeardown),
                ![Head(cmq).id].bufs = @ \ Freed(ServerTeardown)]
  /\ hist' = [hist EXCEPT !.td[Head(cmq).id] = ServerTeardown]
  /\ cmq' = Tail(cmq)
  /\ cmpc' = "idle"
  /\ UNCHANGED <<cfgVars, hVars, dead, num_connections, num_active_connections,
                 recv_msg, sqwr, cq, syncVars, global_lm, lm, tickVars,
                 cmtmp, pollVars, peerVars, now, rounds, ticksAt, posted,
                 fresh, batchRound, counted, reads, sampledAt>>

(* ------------------------------ pollers ------------------------------- *)
\* The struct connection of i has been released by destroy_connection.
Dangling(i) == conn[i].st = "freed"
NoteDeref(i) == IF Dangling(i) THEN [hist EXCEPT !.uaf = @ \cup {i}] ELSE hist

\* The values a read of the descriptor m can give: any of GarbageMrs while m
\* has not been written since malloc.
Content(m) == IF m = UnwrittenMr THEN GarbageMrs ELSE {m}

\* poll_cq, line 434: while (!ret).
LeavesLoop(r) == r # 0

\* on_completion, lines 550-575: the N chained READ work requests, all with
\* the remote address and rkey of conn->peer_mr and the length block_size.
ReadWr(mr) ==
  [opcode |-> "RDMA_READ", raddr |-> mr.addr, rkey |-> mr.rkey,
   len |-> block_size]

\* A test of line 544 that leaves out the counter of completed READs.
ArmsOnMrOnly(rs, nrc) == rs = RS_MR_RECV

\* on_completion, line 544: the connection is ready to arm the next batch.
ReadyToArm(rs, nrc) == rs = RS_MR_RECV /\ nrc = num_mr

\* on_completion, line 522: the READ that completes closes the batch.
ClosesBatch(nrc) == nrc = num_mr

\* A handler that puts the receive state back.
StepsBack(rs) == rs - 1

\* on_completion, line 509: conn->recv_state++.
NextRecvState(rs) == rs + 1

\* poll_cq, lines 434-446, with on_completion, lines 499-529 and 544-575:
\* the drain ends on an empty CQ and the loop is left if ret is set (an
\* empty CQ with ret == 0 blocks in ibv_get_cq_event); otherwise the next
\* completion is taken and handled, up to the global critical section or the
\* wait for the tick.
PollCq(i) ==
  /\ ~dead
  /\ ppc[i] = "poll"
  /\ IF cq[i] = <<>>
     THEN /\ LeavesLoop(ret[i])
          /\ ppc' = [ppc EXCEPT ![i] = "fin"]
          /\ UNCHANGED <<conn, cq, num_read_completed, ret, wr, lm, hist,
                         reads, sampledAt>>
     ELSE
       /\ cq' = [cq EXCEPT ![i] = Tail(@)]
       /\ IF ~Head(cq[i]).ok
          THEN /\ ret' = [ret EXCEPT ![i] = 1]
               /\ hist' = [hist EXCEPT !.err = @ \cup {i}]
               /\ UNCHANGED <<conn, ppc, num_read_completed, wr, lm, reads,
                              sampledAt>>
          ELSE IF Head(cq[i]).op = "RECV"
          THEN \E old \in Content(conn[i].peer_mr) :
               LET rs == NextRecvState(conn[i].recv_state)
                   mr == IF recv_msg[i].type = MSG_MR THEN recv_msg[i].mr
                         ELSE old
               IN /\ conn' = [conn EXCEPT ![i].recv_state = rs, ![i].peer_mr = mr]
                  /\ hist' = NoteDeref(i)
                  /\ IF ReadyToArm(rs, num_read_completed[i])
                     THEN /\ wr' = [wr EXCEPT ![i] = ReadWr(mr)]
                          /\ ppc' = [ppc EXCEPT ![i] = "lock"]
                          /\ UNCHANGED ret
                     ELSE /\ ret' = [ret EXCEPT ![i] = 0]
                          /\ UNCHANGED <<wr, ppc>>
                  /\ UNCHANGED <<num_read_completed, lm, reads, sampledAt>>
          ELSE /\ conn' = [conn EXCEPT ![i].send_state = SS_RDMA_SENT]
               /\ num_read_completed' = [num_read_completed EXCEPT ![i] = @ + 1]
               /\ reads' = [reads EXCEPT ![i] = @ + 1]
               /\ hist' = [NoteDeref(i) EXCEPT
                             !.samples[i] =
                               IF ClosesBatch(num_read_completed[i] + 1)
                               THEN @ + 1 ELSE @]
               /\ IF ClosesBatch(num_read_completed[i] + 1)
                  THEN /\ lm' = [lm EXCEPT ![i] = RecordTimeElapsed(@)]
                       /\ sampledAt' = [sampledAt EXCEPT ![i] = rounds]
                       /\ ppc' = [ppc EXCEPT ![i] = "glock"]
                       /\ UNCHANGED <<ret, wr>>
                  ELSE IF ReadyToArm(conn[i].recv_state, num_read_completed[i] + 1)
                  THEN /\ wr' = [wr EXCEPT ![i] = ReadWr(conn[i].peer_mr)]
                       /\ ppc' = [ppc EXCEPT ![i] = "lock"]
                       /\ UNCHANGED <<ret, lm, sampledAt>>
                  ELSE /\ ret' = [ret EXCEPT ![i] = 0]
                       /\ UNCHANGED <<lm, ppc, wr, sampledAt>>
  /\ UNCHANGED <<cfgVars, hVars, dead, num_connections, num_active_connections,
                 recv_msg, qp, rq, sq, sqwr, syncVars, global_lm, tickVars,
                 cmVars, peerVars, now, rounds, ticksAt, posted, fresh,
                 batchRound, counted>>

\* A round that counts as complete with the first batch that finishes.
AnyFinished(nf) == nf >= 1

\* on_completion, line 533: the round is complete.
RoundComplete(nf) == nf = num_active_connections

\* on_completion, lines 531-537 and 544-575: under lock_global_lm count the
\* finished batch and record the round latency when all active connections
\* have finished; then the test of line 544 and the next work requests.
GlobalCount(i) ==
  /\ ~dead
  /\ ppc[i] = "glock"
  /\ LET nf == global_lm.num_finished + 1
         g == [global_lm EXCEPT !.num_finished = nf]
         done == [hist.roundDone EXCEPT ![i] = @ \/ batchRound[i] = rounds]
         h == AltCount(NoteDeref(i), RoundComplete(nf))
     IN /\ global_lm' = IF RoundComplete(nf) THEN RecordTimeElapsed(g) ELSE g
        /\ counted' = [counted EXCEPT ![i] = @ + 1]
        /\ hist' = Note([h EXCEPT
                      !.roundDone = done,
                      !.stale = @ \/ batchRound[i] # rounds,
                      !.grec = IF RoundComplete(nf) THEN @ + 1 ELSE @,
                      !.badRec = @ \/ (RoundComplete(nf)
                                       /\ \E j \in Active : ~done[j])],
                     GlobalAccess(IF RoundComplete(nf) THEN GlobalFields
                                  ELSE {"num_finished"}, Poller(i),
                                  {GlobalLock}))
  /\ IF ReadyToArm(conn[i].recv_state, num_read_completed[i])
     THEN /\ wr' = [wr EXCEPT ![i] = ReadWr(conn[i].peer_mr)]
          /\ ppc' = [ppc EXCEPT ![i] = "lock"]
          /\ UNCHANGED ret
     ELSE /\ ret' = [ret EXCEPT ![i] = 0]
          /\ ppc' = [ppc EXCEPT ![i] = "poll"]
          /\ UNCHANGED wr
  /\ UNCHANGED <<cfgVars, hVars, dead, num_connections, num_active_connections,
                 connVars, syncVars, lm, tickVars, cmVars,
                 num_read_completed, peerVars, now, rounds, ticksAt, posted,
                 fresh, batchRound, reads, sampledAt>>

\* A poller that does not wait for the flag.
NeverWaits(flag) == FALSE

\* on_completion, line 579: the poller has to wait for a tick.
MustWait(flag) == flag = 0

\* A poller that leaves the flag as it found it.
KeepsFlag(old) == old

\* on_completion, line 582: the value the poller leaves in the flag.
PollerFlag(old) == 0

\* A poller that never looks at what it read from terminate[i].
NeverQuits(t) == FALSE

\* on_completion, line 586: the poller quits instead of posting.
QuitsOnExit(t) == t # 0

\* on_completion, lines 578-589, under lock[i]: wait while the flag is 0
\* (pthread_cond_wait releases the mutex); otherwise clear the flag, read
\* terminate[i], unlock, and return 1 if the connection was torn down.
FlagCheck(i) ==
  /\ ~dead
  /\ ppc[i] = "lock"
  /\ IF MustWait(read_remote[i])
     THEN /\ ppc' = [ppc EXCEPT ![i] = "cwait"]
          /\ hist' = Note(hist, {Access("read_remote", i, "read", Poller(i),
                                            PollerHolds(i))})
          /\ UNCHANGED <<read_remote, ret>>
     ELSE /\ read_remote' = [read_remote EXCEPT ![i] = PollerFlag(@)]
          /\ hist' = Note(hist,
                          {Access("read_remote", i, o, Poller(i), PollerHolds(i)) :
                             o \in {"read", Store(PollerFlag(read_remote[i]))}}
                            \cup {Access("terminate", i, "read", Poller(i),
                                         PollerHolds(i))})
          /\ IF QuitsOnExit(terminate[i])
             THEN /\ ret' = [ret EXCEPT ![i] = 1]
                  /\ ppc' = [ppc EXCEPT ![i] = "poll"]
             ELSE /\ ppc' = [ppc EXCEPT ![i] = "post"]
                  /\ UNCHANGED ret
  /\ UNCHANGED <<cfgVars, hVars, dead, num_connections, num_active_connections,
                 connVars, terminate, global_lm, lm, tickVars, cmVars,
                 num_read_completed, wr, peerVars, now, rounds, ticksAt,
                 posted, fresh, batchRound, counted, reads, sampledAt>>

\* pthread_cond_wait may return without a signal; the mutex is taken again
\* and the flag is tested again.
SpuriousWake(i) ==
  /\ ~dead
  /\ ppc[i] = "cwait"
  /\ ppc' = [ppc EXCEPT ![i] = "lock"]
  /\ UNCHANGED <<cfgVars, hVars, dead, num_connections, num_active_connections,
                 connVars, syncVars, global_lm, lm, tickVars, cmVars,
                 num_read_completed, ret, wr, peerVars, now, histVars>>

\* A completion of a READ, successful or flushed.
ReadWc(good) == [op |-> "READ", ok |-> good]

RECURSIVE Repeat(_, _)
Repeat(x, n) == IF n = 0 THEN <<>> ELSE <<x>> \o Repeat(x, n - 1)

\* on_completion, lines 592-595: start the clock, ibv_post_send the chain,
\* reset the counter. Work requests posted on a QP in the error state are
\* flushed at once; on a released connection or a destroyed QP nothing is
\* queued.
Post(i) ==
  /\ ~dead
  /\ ppc[i] = "post"
  /\ lm' = [lm EXCEPT ![i].start = ClockGettime]
  /\ IF Dangling(i) \/ qp[i] = "destroyed"
     THEN UNCHANGED <<sq, sqwr, cq>>
     ELSE IF qp[i] = "err"
     THEN /\ cq' = [cq EXCEPT ![i] = @ \o Repeat(ReadWc(FALSE), num_mr)]
          /\ sqwr' = [sqwr EXCEPT ![i] = wr[i]]
          /\ UNCHANGED sq
     ELSE /\ sq' = [sq EXCEPT ![i] = @ + num_mr]
          /\ sqwr' = [sqwr EXCEPT ![i] = wr[i]]
          /\ UNCHANGED cq
  /\ num_read_completed' = [num_read_completed EXCEPT ![i] = 0]
  /\ ret' = [ret EXCEPT ![i] = 0]
  /\ ppc' = [ppc EXCEPT ![i] = "poll"]
  /\ posted' = [posted EXCEPT ![i] = @ + 1]
  /\ batchRound' = [batchRound EXCEPT ![i] = rounds]
  /\ hist' = [hist EXCEPT
                !.uaf = IF Dangling(i) \/ qp[i] = "destroyed" THEN @ \cup {i} ELSE @,
                !.postTd = IF terminate[i] = 1 THEN @ \cup {i} ELSE @]
  /\ UNCHANGED <<cfgVars, hVars, dead, num_connections, num_active_connections,
                 conn, recv_msg, qp, rq, syncVars, global_lm, tickVars,
                 cmVars, wr, peerVars, now, rounds, ticksAt, fresh, counted,
                 reads, sampledAt>>

\* A dereference of released memory may also end the process.
UafCrash(i) ==
  /\ ~dead
  /\ \/ ppc[i] = "poll" /\ cq[i] # <<>> /\ Head(cq[i]).ok /\ Dangling(i)
     \/ ppc[i] = "glock" /\ Dangling(i)
     \/ ppc[i] = "post" /\ (Dangling(i) \/ qp[i] = "destroyed")
  /\ dead' = TRUE
  /\ hist' = [hist EXCEPT !.uaf = @ \cup {i}]
  /\ UNCHANGED <<cfgVars, hVars, num_connections, num_active_connections, connVars,
                 syncVars, global_lm, lm, tickVars, cmVars, pollVars,
                 peerVars, now, rounds, ticksAt, posted, fresh, batchRound,
                 counted, reads, sampledAt>>

\* record_time_elapsed, line 613, with num_samples beyond the buffer: the
\* store outside the allocation may also end the process.
WildStoreCrash(i) ==
  /\ ~dead
  /\ ppc[i] = "poll"
  /\ cq[i] # <<>>
  /\ Head(cq[i]).ok
  /\ Head(cq[i]).op = "READ"
  /\ ClosesBatch(num_read_completed[i] + 1)
  /\ OutOfBuffer(lm[i])
  /\ dead' = TRUE
  /\ UNCHANGED <<cfgVars, hVars, num_connections, num_active_connections, connVars,
                 syncVars, global_lm, lm, tickVars, cmVars, pollVars,
                 peerVars, now, histVars>>

\* poll_cq, lines 451-471: the files poller i writes when it exits.
ExitFiles(i) ==
  {<<"latency_samples", i>>} \cup
    IF num_active_connections = 1
    THEN {<<"read_completion_latency", 0>>} ELSE {}

\* poll_cq, lines 450-477: the sample file of the connection is written;
\* under lock_global_lm the last active poller writes the global file and
\* frees the global buffer, and num_active_connections is decremented.
PollExit(i) ==
  /\ ~dead
  /\ ppc[i] = "fin"
  /\ global_lm' = IF num_active_connections = 1
                  THEN [global_lm EXCEPT !.alloc = FALSE] ELSE global_lm
  /\ hist' = Note([AltExit(hist) EXCEPT
                       !.exits = IF audit
                                 THEN @ \cup {[i |-> i, files |-> ExitFiles(i),
                                               others |-> Active \ {i}]}
                                 ELSE @],
                   {Access("num_active_connections", 0, "access", Poller(i),
                           {GlobalLock})}
                     \cup IF num_active_connections = 1
                          THEN GlobalAccess({"num_samples", "samples"},
                                            Poller(i), {GlobalLock})
                          ELSE {})
  /\ num_active_connections' = num_active_connections - 1
  /\ ppc' = [ppc EXCEPT ![i] = "done"]
  /\ UNCHANGED <<cfgVars, hVars, dead, num_connections, connVars, syncVars, lm,
                 tickVars, cmVars, num_read_completed, ret, wr, peerVars,
                 now, rounds, ticksAt, posted, fresh, batchRound, counted,
                 reads, sampledAt>>

(* ------------------ transport, as the collector sees it --------------- *)
\* The CQ after the work requests queued on the QP of k are flushed in error.
Flushed(k) ==
  cq[k] \o Repeat(ReadWc(FALSE), sq[k])
        \o Repeat([op |-> "RECV", ok |-> FALSE], rq[k])

\* rdma_connect of a host agent reaches C: the CM reports CONNECT_REQUEST.
\* Requests are handled in the order of arrival, so the request that arrives
\* as number reqs gets the logical id reqs.
ConnectRequestArrives ==
  /\ reqs < MaxConn
  /\ cmq' = Append(cmq, [ev |-> "CONNECT_REQUEST", id |-> reqs])
  /\ pst' = [pst EXCEPT ![reqs] = "req"]
  /\ reqs' = reqs + 1

\* The connection k is established: the CM of C reports ESTABLISHED.
EstablishedArrives(k) ==
  /\ pst[k] = "accepted"
  /\ cmq' = Append(cmq, [ev |-> "ESTABLISHED", id |-> k])
  /\ pst' = [pst EXCEPT ![k] = "est"]

\* The control message m of the peer of k arrives in conn->recv_msg and the
\* posted receive completes.
MessageArrives(k, m) ==
  /\ recv_msg' = [recv_msg EXCEPT ![k] = m]
  /\ rq' = [rq EXCEPT ![k] = 0]
  /\ cq' = [cq EXCEPT ![k] = Append(@, [op |-> "RECV", ok |-> TRUE])]
  /\ sentMsg' = [sentMsg EXCEPT ![k] = m]
  /\ psent' = [psent EXCEPT ![k] = TRUE]

\* The disconnect request of the peer of k arrives: the QP of C enters the
\* error state, its queued work requests are flushed, the CM reports
\* DISCONNECTED.
DisconnectArrives(k) ==
  /\ cmq' = Append(cmq, [ev |-> "DISCONNECTED", id |-> k])
  /\ pst' = [pst EXCEPT ![k] = "disc"]
  /\ IF qp[k] = "rts"
     THEN /\ qp' = [qp EXCEPT ![k] = "err"]
          /\ cq' = [cq EXCEPT ![k] = Flushed(k)]
          /\ sq' = [sq EXCEPT ![k] = 0]
          /\ rq' = [rq EXCEPT ![k] = 0]
     ELSE UNCHANGED <<qp, cq, sq, rq>>

\* rdma-common.c send_mr: the MR message of the host agent of connection k
\* carries the descriptor of its page MR, registered with the block size of
\* H (rdma-agent.c register_memory).
MrMsg(k) == [type |-> MSG_MR, mr |-> PageMr(k, h_block_size)]

(* ------------------- peers of the collector, abstract ----------------- *)
PeerConnect ==
  /\ ~dead
  /\ ConnectRequestArrives
  /\ UNCHANGED <<cfgVars, hVars, dead, num_connections, num_active_connections,
                 connVars, syncVars, global_lm, lm, tickVars, cmpc, cmtmp,
                 pollVars, psent, sentMsg, now, histVars>>

PeerEstablished(k) ==
  /\ ~dead
  /\ EstablishedArrives(k)
  /\ UNCHANGED <<cfgVars, hVars, dead, num_connections, num_active_connections,
                 connVars, syncVars, global_lm, lm, tickVars, cmpc, cmtmp,
                 pollVars, reqs, psent, sentMsg, now, histVars>>

\* The peer of k sends its first control message m.
PeerSend(k, m) ==
  /\ ~dead
  /\ pst[k] \in {"accepted", "est"}
  /\ ~psent[k]
  /\ qp[k] = "rts"
  /\ rq[k] = 1
  /\ MessageArrives(k, m)
  /\ UNCHANGED <<cfgVars, hVars, dead, num_connections, num_active_connections,
                 conn, qp, sq, sqwr, syncVars, global_lm, lm, tickVars,
                 cmVars, pollVars, reqs, pst, now, histVars>>

\* rdma-agent.c on_connection: the host agent sends its MR message.
PeerSendMr(k) == PeerSend(k, MrMsg(k))

\* A peer whose first control message carries another tag.
PeerSendOther(k) == \E m \in OtherMsgs : PeerSend(k, m)

\* The peer of k disconnects (rdma_disconnect on H).
PeerDisconnect(k) ==
  /\ ~dead
  /\ pst[k] = "est"
  /\ Cardinality({j \in Conns : pst[j] = "disc"}) < MaxDisc
  /\ DisconnectArrives(k)
  /\ UNCHANGED <<cfgVars, hVars, dead, num_connections, num_active_connections,
                 conn, recv_msg, sqwr, syncVars, global_lm, lm, tickVars,
                 cmpc, cmtmp, pollVars, reqs, psent, sentMsg, now, histVars>>

\* The READs queued on k name the page MR of the peer of k and stay within
\* its registered length.
RemoteOk(k) ==
  /\ sqwr[k].raddr = PageMr(k, h_block_size).addr
  /\ sqwr[k].rkey = PageMr(k, h_block_size).rkey
  /\ sqwr[k].len <= h_block_size

\* The oldest READ of the send queue completes successfully.
ReadComplete(k) ==
  /\ ~dead
  /\ qp[k] = "rts"
  /\ sq[k] > 0
  /\ RemoteOk(k)
  /\ sq' = [sq EXCEPT ![k] = @ - 1]
  /\ cq' = [cq EXCEPT ![k] = Append(@, ReadWc(TRUE))]
  /\ UNCHANGED <<cfgVars, hVars, dead, num_connections, num_active_connections,
                 conn, recv_msg, qp, rq, sqwr, syncVars, global_lm, lm,
                 tickVars, cmVars, pollVars, peerVars, now, histVars>>

\* The oldest READ of the send queue is refused by the peer (remote access
\* error): the QP enters the error state and its work requests are flushed.
ReadFails(k) ==
  /\ ~dead
  /\ qp[k] = "rts"
  /\ sq[k] > 0
  /\ ~RemoteOk(k)
  /\ qp' = [qp EXCEPT ![k] = "err"]
  /\ cq' = [cq EXCEPT ![k] = Flushed(k)]
  /\ sq' = [sq EXCEPT ![k] = 0]
  /\ rq' = [rq EXCEPT ![k] = 0]
  /\ UNCHANGED <<cfgVars, hVars, dead, num_connections, num_active_connections,
                 conn, recv_msg, sqwr, syncVars, global_lm, lm, tickVars,
                 cmVars, pollVars, peerVars, now, histVars>>

\* Time passes.
AdvanceClock ==
  /\ now < MaxTime
  /\ now' = now + 1
  /\ UNCHANGED <<cfgVars, hVars, dead, num_connections, num_active_connections,
                 connVars, syncVars, global_lm, lm, tickVars, cmVars,
                 pollVars, peerVars, histVars>>


\* The oldest READ of the send queue completes with a status other than
\* IBV_WC_SUCCESS while the QP stays usable (a failure injected on the
\* connection).
FailedCompletion(k) ==
  /\ ~dead
  /\ qp[k] = "rts"
  /\ sq[k] > 0
  /\ sq' = [sq EXCEPT ![k] = @ - 1]
  /\ cq' = [cq EXCEPT ![k] = Append(@, ReadWc(FALSE))]
  /\ UNCHANGED <<cfgVars, hVars, dead, num_connections, num_active_connections,
                 conn, recv_msg, qp, rq, sqwr, syncVars, global_lm, lm,
                 tickVars, cmVars, pollVars, peerVars, now, histVars>>
(* ----------------------------- host agent ----------------------------- *)
\* The collector state no step of the host agent process touches directly.
cOwn == <<cfgVars, dead, num_connections, num_active_connections, conn, sqwr,
          syncVars, global_lm, lm, tickVars, cmpc, cmtmp, pollVars, now,
          histVars>>

\* The state of the collector's side of the connections that the transport
\* changes.
cNet == <<qp, rq, sq, cq, recv_msg, cmq, peerVars>>

\* The watcher thread and struct control_plane.
hWatchVars == <<pod_pids, cp_conn, num_pods, wpc, wi>>

\* The connection counter of rdma-agent.c and the record of the calls of the
\* host agent.
hAux == <<hnum_connections, hlog>>

\* The pollers of the host agent and the queues they serve.
hPollVars == <<hcs, hppc, hret, hcq, hrq, hrecv_msg, hsent, hin, herr>>

\* The process id of pod p, and the sentinel of a slot the watcher has done
\* with (agent.c line 117).
Pid(p) == p + 1
NoPid == -1

\* A kill that fails for every pid.
KillAlwaysFails(pid) == TRUE

\* kill(pid, 0) == -1: no process has the id pid.
KillFails(pid) == \A p \in Conns : Pid(p) = pid => ~alive[p]

\* rdma-agent.c register_memory: the MRs and the buffers of a session. The
\* page MR is registered on the shared page of the pod, which the session got
\* from mmap.
AgentMrs == {<<"send_mr", 0>>, <<"recv_mr", 0>>, <<"rdma_remote_mr", 0>>}

AgentBufs == {<<"send_msg", 0>>, <<"recv_msg", 0>>}

\* A registration that lets the peer write every MR.
RemoteWritable(m) == {"LOCAL_WRITE", "REMOTE_WRITE"}

\* rdma-agent.c register_memory, lines 246-262: the access flags each MR is
\* registered with.
AgentAccess(m) ==
  CASE m = <<"send_mr", 0>> -> {}
    [] m = <<"recv_mr", 0>> -> {"LOCAL_WRITE"}
    [] m = <<"rdma_remote_mr", 0>> -> {"REMOTE_READ"}

\* A teardown of the host agent that releases the page first.
AgentTeardownPageFirst ==
  <<Ev("free", "rdma_remote_region", 0),
    Ev("destroy_qp", "qp", 0),
    Ev("dereg_mr", "send_mr", 0),
    Ev("dereg_mr", "recv_mr", 0),
    Ev("dereg_mr", "rdma_remote_mr", 0),
    Ev("free", "send_msg", 0),
    Ev("free", "recv_msg", 0),
    Ev("destroy_id", "id", 0),
    Ev("free_conn", "conn", 0)>>

\* destroy_connection of the host agent, lines 270-282, in program order.
AgentTeardown ==
  <<Ev("destroy_qp", "qp", 0),
    Ev("dereg_mr", "send_mr", 0),
    Ev("dereg_mr", "recv_mr", 0),
    Ev("dereg_mr", "rdma_remote_mr", 0),
    Ev("free", "send_msg", 0),
    Ev("free", "recv_msg", 0),
    Ev("free", "rdma_remote_region", 0),
    Ev("destroy_id", "id", 0),
    Ev("free_conn", "conn", 0)>>

\* The page is passed to free (line 278) although it came from mmap: the call
\* may end the process, may release the mapping, or may leave it in place.
FreeOfMapping == {"abort", "released", "kept"}

\* The place of the release of the page in a teardown log (0 if none).
PageFreeAt(log) ==
  IF \E n \in DOMAIN log : log[n] = Ev("free", "rdma_remote_region", 0)
  THEN CHOOSE n \in DOMAIN log : log[n] = Ev("free", "rdma_remote_region", 0)
  ELSE 0

\* The steps of a teardown that have run when free(page) has had outcome o.
Ran(log, o) == IF o = "abort" THEN SubSeq(log, 1, PageFreeAt(log)) ELSE log

\* The resources r of a session after the steps of log have run, the free
\* of the page with outcome o.
AfterTeardown(r, log, o) ==
  LET ops == {log[n].op : n \in DOMAIN log} IN
  [r EXCEPT
     !.qp = IF "destroy_qp" \in ops THEN "destroyed" ELSE @,
     !.mrs = @ \ Deregistered(log),
     !.bufs = @ \ Freed(log),
     !.page = IF PageFreeAt(log) = 0 \/ o = "kept" THEN @ ELSE "released",
     !.id = IF "destroy_id" \in ops THEN "destroyed" ELSE @,
     !.td = log]

\* handleNewPod: the calls of the handler whose failure the code can meet.
HandlerOutcomes == {"ok", "recv", "shm_open", "ftruncate"}

\* handleNewPod, lines 133-136 and 145-149: the failures after which the
\* handler calls exit. The result of ftruncate (line 152) is not looked at.
HandlerExits(o) == o \in {"recv", "shm_open"}

Call(c, good) == [call |-> c, ok |-> good]

\* handleNewPod, lines 131-161, and start_rdma_session, lines 65-82, in
\* program order, when the call o fails.
HandlerLog(o) ==
  IF o = "recv"
  THEN <<Call("recv", FALSE), Call("exit", TRUE)>>
  ELSE IF o = "shm_open"
  THEN <<Call("recv", TRUE), Call("shm_open", FALSE), Call("exit", TRUE)>>
  ELSE <<Call("recv", TRUE), Call("shm_open", TRUE),
         Call("ftruncate", o # "ftruncate"), Call("send", TRUE),
         Call("close", TRUE), Call("mmap", TRUE), Call("rdma_create_id", TRUE),
         Call("rdma_resolve_addr", TRUE), Call("cp", TRUE),
         Call("rdma_get_cm_event", TRUE)>>

\* start_rdma_session, lines 77-79: the values cp.num_pods may hold after the
\* stores at index n. An index outside the arrays overwrites what lies behind
\* them in struct control_plane, the counter included.
NumPodsAfter(n) == IF n \in Conns THEN {n + 1} ELSE 0 .. MaxConn

\* An access outside an array may also end the process.
OutOfArray(n) == IF n \in Conns THEN {FALSE} ELSE BOOLEAN

\* handleNewPod with start_rdma_session, lines 131-161 and 65-80: the pod id
\* is received, the shared object is created and sized, its name is sent, the
\* page is mapped, the CM id is created with the page as its context,
\* rdma_resolve_addr is issued, and under cp_mutex the pod is entered in cp.
\* The call o fails.
HandleNewPod(p, o) ==
  /\ ~hdead
  /\ hst[p] = "none"
  /\ alive[p]
  /\ wpc = "sleep"
  /\ IF HandlerExits(o)
     THEN /\ hdead' = TRUE
          /\ hexit' = "handler"
          /\ hlog' = [hlog EXCEPT !.steps[p] = HandlerLog(o)]
          /\ UNCHANGED <<hst, hres, pod_pids, cp_conn, num_pods>>
     ELSE /\ hlog' = [hlog EXCEPT !.steps[p] = HandlerLog(o),
                                  !.idx = @ \cup {num_pods}]
          /\ \E crash \in OutOfArray(num_pods) :
               IF crash
               THEN /\ hdead' = TRUE
                    /\ hexit' = "cp"
                    /\ UNCHANGED <<hst, hres, pod_pids, cp_conn, num_pods>>
               ELSE /\ hst' = [hst EXCEPT ![p] = "addr"]
                    /\ hres' = [hres EXCEPT ![p].page = "mapped",
                                            ![p].id = "live"]
                    /\ pod_pids' = [pod_pids EXCEPT ![num_pods] = Pid(p)]
                    /\ cp_conn' = [cp_conn EXCEPT ![num_pods] = p]
                    /\ num_pods' \in NumPodsAfter(num_pods)
                    /\ UNCHANGED <<hdead, hexit>>
  /\ UNCHANGED <<cOwn, cNet, alive, hq, hconn, hcid, wpc, wi, hPollVars,
                 hnum_connections>>

\* A handler none of whose calls fails.
StartRdmaSession(p) == HandleNewPod(p, "ok")

\* The process of a registered pod ceases to exist.
PodDies(p) ==
  /\ ~hdead
  /\ alive[p]
  /\ hst[p] # "none"
  /\ Cardinality({q \in Conns : ~alive[q]}) < MaxDisc
  /\ alive' = [alive EXCEPT ![p] = FALSE]
  /\ UNCHANGED <<cOwn, hAux, cNet, hWatchVars, hst, hq, hconn, hcid, hdead, hexit,
                 hres, hPollVars>>

\* A pod whose session has ended is started again; the accept loop of run
\* (lines 236-261) admits it and a new handler runs for it.
PodRestarts(p) ==
  /\ ~hdead
  /\ ~alive[p]
  /\ hst[p] = "closed"
  /\ hlog.restarts < MaxRestarts
  /\ alive' = [alive EXCEPT ![p] = TRUE]
  /\ hst' = [hst EXCEPT ![p] = "none"]
  /\ hlog' = [hlog EXCEPT !.restarts = @ + 1]
  /\ UNCHANGED <<cOwn, hnum_connections, cNet, hWatchVars, hq, hconn, hcid, hdead, hexit,
                 hres, hPollVars>>

\* An increment of num_connections that is lost.
SameConnId(n) == n

\* rdma-agent.c build_connection, lines 94-97: num_connections after
\* conn_id = num_connections++, which runs under nc_mutex.
NextConnId(n) == n + 1

\* rdma-agent.c on_event, ADDR_RESOLVED: on_addr_resolved runs
\* build_connection (conn_id = num_connections++ under nc_mutex, build_context
\* with s_ctx[conn_id] and the poller thread, QP, struct connection,
\* register_memory, post_receives) and rdma_resolve_route.
HOnAddrResolved(p) ==
  /\ ~hdead
  /\ hst[p] = "addr"
  /\ hnum_connections' = NextConnId(hnum_connections)
  /\ hlog' = [hlog EXCEPT !.lid = @ \cup {hnum_connections}]
  /\ \E crash \in OutOfArray(hnum_connections) :
       IF crash
       THEN /\ hdead' = TRUE
            /\ hexit' = "s_ctx"
            /\ UNCHANGED <<hconn, hppc, hres, hcs, hrq, hst>>
       ELSE /\ hconn' = [hconn EXCEPT ![p] = "live"]
            /\ hppc' = [hppc EXCEPT ![p] = "poll"]
            /\ hres' = [hres EXCEPT ![p].qp = "live", ![p].mrs = AgentMrs,
                                    ![p].bufs = AgentBufs,
                                    ![p].access = [m \in AgentMrs |->
                                                     AgentAccess(m)]]
            /\ hcs' = [hcs EXCEPT ![p] = [send_state |-> SS_INIT,
                                          recv_state |-> RS_INIT,
                                          connected |-> 0]]
            /\ hrq' = [hrq EXCEPT ![p] = 1]
            /\ hst' = [hst EXCEPT ![p] = "route"]
            /\ UNCHANGED <<hdead, hexit>>
  /\ UNCHANGED <<cOwn, cNet, alive, hWatchVars, hq, hcid, hret, hcq,
                 hrecv_msg, hsent, hin, herr>>

\* rdma-agent.c on_event, ROUTE_RESOLVED: on_route_resolved calls
\* rdma_connect.
HOnRouteResolved(p) ==
  /\ ~hdead
  /\ hst[p] = "route"
  /\ ConnectRequestArrives
  /\ hcid' = [hcid EXCEPT ![p] = reqs]
  /\ hst' = [hst EXCEPT ![p] = "connect"]
  /\ UNCHANGED <<cOwn, hAux, qp, rq, sq, cq, recv_msg, psent, sentMsg, alive,
                 hWatchVars, hq, hconn, hdead, hexit, hres, hPollVars>>

\* The reply of C to the connection request arrives: the connection is
\* established and the CM reports ESTABLISHED on both sides.
HEstablished(p) ==
  /\ ~hdead
  /\ hst[p] = "connect"
  /\ EstablishedArrives(hcid[p])
  /\ hst' = [hst EXCEPT ![p] = "est"]
  /\ hq' = [hq EXCEPT ![p] = Append(@, "ESTABLISHED")]
  /\ UNCHANGED <<cOwn, hAux, qp, rq, sq, cq, recv_msg, reqs, psent, sentMsg, alive,
                 hWatchVars, hconn, hcid, hdead, hexit, hres, hPollVars>>

\* A completion on the CQ of a session of the host agent.
HWc(o, good) == [op |-> o, ok |-> good]

\* The CQ of the session of pod p after its posted receives are flushed.
HFlushed(p) == hcq[p] \o Repeat(HWc("RECV", FALSE), hrq[p])

\* on_connect (rdma-common.c line 253): the value of conn->connected.
Connected == 1

\* A session that sends its MR message before it marks the connection.
NotYetConnected == 0

\* rdma-agent.c on_connection, line 30: conn->connected when send_mr runs.
ConnectedAtSend == Connected

\* rdma-agent.c on_event, ESTABLISHED: on_connection runs on_connect and
\* send_mr, which posts one SEND of the MR message. The SEND completes when
\* the message has reached the receive posted by C; on a QP that has left
\* the connection it is flushed, and the QP enters the error state.
HOnConnection(p) ==
  /\ ~hdead
  /\ hq[p] # <<>>
  /\ Head(hq[p]) = "ESTABLISHED"
  /\ hq' = [hq EXCEPT ![p] = Tail(@)]
  /\ hcs' = [hcs EXCEPT ![p].connected = Connected]
  /\ hsent' = [hsent EXCEPT ![p] = Append(@, [opcode |-> "SEND",
                                              type |-> MrMsg(hcid[p]).type,
                                              connected |-> ConnectedAtSend,
                                              on |-> Head(hq[p])])]
  /\ IF hst[p] = "est" /\ qp[hcid[p]] = "rts" /\ rq[hcid[p]] = 1
     THEN /\ MessageArrives(hcid[p], MrMsg(hcid[p]))
          /\ hcq' = [hcq EXCEPT ![p] = Append(@, HWc("SEND", TRUE))]
          /\ UNCHANGED <<hrq, hres>>
     ELSE /\ hcq' = [hcq EXCEPT ![p] = Append(HFlushed(p), HWc("SEND", FALSE))]
          /\ hrq' = [hrq EXCEPT ![p] = 0]
          /\ hres' = [hres EXCEPT ![p].qp = "err"]
          /\ UNCHANGED <<recv_msg, rq, cq, sentMsg, psent>>
  /\ UNCHANGED <<cOwn, hAux, qp, sq, cmq, reqs, pst, alive, hWatchVars, hst, hconn,
                 hcid, hdead, hexit, hppc, hret, hrecv_msg, hin, herr>>

\* rdma-agent.c on_event, DISCONNECTED: on_disconnect runs destroy_connection
\* and ends the event loop of the session; start_rdma_session and
\* handleNewPod return without another release.
HOnDisconnect(p) ==
  /\ ~hdead
  /\ hq[p] # <<>>
  /\ Head(hq[p]) = "DISCONNECTED"
  /\ hq' = [hq EXCEPT ![p] = Tail(@)]
  /\ \E o \in FreeOfMapping :
       /\ hres' = [hres EXCEPT ![p] = AfterTeardown(@, Ran(AgentTeardown, o), o)]
       /\ hdead' = (o = "abort")
       /\ hexit' = IF o = "abort" THEN "free" ELSE hexit
       /\ hconn' = [hconn EXCEPT ![p] = IF o = "abort" THEN @ ELSE "freed"]
       /\ hst' = [hst EXCEPT ![p] = IF o = "abort" THEN @ ELSE "closed"]
  /\ UNCHANGED <<cOwn, hAux, cNet, alive, hWatchVars, hcid, hPollVars>>

\* rdma-agent.c on_event, default: an event the session does not expect ends
\* the process (die).
HOnUnknownEvent(p) ==
  /\ ~hdead
  /\ hst[p] = "broken"
  /\ hdead' = TRUE
  /\ hexit' = "die"
  /\ UNCHANGED <<cOwn, hAux, cNet, alive, hWatchVars, hst, hq, hconn, hcid, hres,
                 hPollVars>>

\* poll_pids, lines 104-107: the sleep ends and cp_mutex is taken.
PollPidsStart ==
  /\ ~hdead
  /\ wpc = "sleep"
  /\ wpc' = "scan"
  /\ wi' = 0
  /\ UNCHANGED <<cOwn, hAux, cNet, alive, pod_pids, cp_conn, num_pods, hst, hq,
                 hconn, hcid, hdead, hexit, hres, hPollVars>>

\* The states rdma_disconnect may leave the CM id of pod p in. On an
\* established connection the disconnect request is sent. An id that is still
\* resolving its address is bound to no device: the call fails and changes
\* nothing. On an id that has a QP but no connection yet no request is sent;
\* the QP may be left in the error state, and the connection attempt then
\* ends with an event the session does not expect.
RdmaDisconnect(p) ==
  CASE hst[p] = "est" -> {"disc"}
    [] hst[p] \in {"route", "connect"} -> {hst[p], "broken"}
    [] OTHER -> {hst[p]}

\* The outcomes of an access to an object (the struct connection, the CM id)
\* after destroy_connection has released it.
UseAfterFree == {"crash", "unnoticed"}

\* poll_pids, line 115: the outcomes of rdma_disconnect on the CM id of pod p.
OnCmId(p) == IF hres[p].id = "destroyed" THEN UseAfterFree ELSE {"unnoticed"}

\* poll_pids, lines 107-120, slot wi: if the slot holds a pid and no process
\* has it, rdma_disconnect is called on the CM id of the slot, its result is
\* not looked at, and the slot is marked. A disconnect of an established
\* connection puts the QP in the error state and flushes its receives.
PollPidsSlot ==
  /\ ~hdead
  /\ wpc = "scan"
  /\ wi < num_pods
  /\ wi' = wi + 1
  /\ IF pod_pids[wi] # NoPid /\ KillFails(pod_pids[wi])
     THEN LET p == cp_conn[wi] IN
          /\ pod_pids' = [pod_pids EXCEPT ![wi] = NoPid]
          /\ hlog' = [hlog EXCEPT !.disc = @ \cup
                        {[slot |-> wi, pid |-> pod_pids[wi],
                          id |-> hres[p].id,
                          exists |-> \E q \in Conns :
                                       Pid(q) = pod_pids[wi] /\ alive[q]]}]
          /\ \E o \in OnCmId(p) :
               /\ hdead' = (o = "crash")
               /\ hexit' = IF o = "crash" THEN "uaf" ELSE hexit
          /\ \E s \in RdmaDisconnect(p) :
               /\ hst' = [hst EXCEPT ![p] = s]
               /\ IF s = "disc"
                  THEN /\ DisconnectArrives(hcid[p])
                       /\ hq' = [hq EXCEPT ![p] = Append(@, "DISCONNECTED")]
                       /\ hcq' = [hcq EXCEPT ![p] = HFlushed(p)]
                       /\ hrq' = [hrq EXCEPT ![p] = 0]
                       /\ hres' = [hres EXCEPT ![p].qp = "err"]
                  ELSE UNCHANGED <<cmq, pst, qp, cq, sq, rq, hq, hcq, hrq,
                                   hres>>
     ELSE UNCHANGED <<pod_pids, hst, cmq, pst, qp, cq, sq, rq, hq, hcq, hrq,
                      hres, hlog, hdead, hexit>>
  /\ UNCHANGED <<cOwn, hnum_connections, recv_msg, reqs, psent, sentMsg, alive, cp_conn,
                 num_pods, hconn, hcid, wpc, hcs, hppc, hret,
                 hrecv_msg, hsent, hin, herr>>

\* poll_pids, line 121: the pass is over, cp_mutex is released.
PollPidsEnd ==
  /\ ~hdead
  /\ wpc = "scan"
  /\ wi = num_pods
  /\ wpc' = "sleep"
  /\ UNCHANGED <<cOwn, hAux, cNet, alive, pod_pids, cp_conn, num_pods, hst, hq,
                 hconn, hcid, hdead, hexit, wi, hres, hPollVars>>

\* The collector process has ended (die, exit, a crash): the connection of
\* the session of pod p is broken from the collector's side, the QP of the
\* session enters the error state, its receives are flushed and the CM
\* reports DISCONNECTED to the session.
CollectorGone(p) ==
  /\ ~hdead
  /\ dead
  /\ hst[p] = "est"
  /\ hst' = [hst EXCEPT ![p] = "disc"]
  /\ hq' = [hq EXCEPT ![p] = Append(@, "DISCONNECTED")]
  /\ hcq' = [hcq EXCEPT ![p] = HFlushed(p)]
  /\ hrq' = [hrq EXCEPT ![p] = 0]
  /\ hres' = [hres EXCEPT ![p].qp = "err"]
  /\ UNCHANGED <<cOwn, hAux, cNet, alive, hWatchVars, hconn, hcid, hdead,
                 hexit, hcs, hppc, hret, hrecv_msg, hsent, hin, herr>>

\* A control message with tag t reaches the receive the session of pod p has
\* posted (rdma-common.c post_receives): it is stored in conn->recv_msg and
\* the receive completes.
ControlMessageArrives(p, t) ==
  /\ ~hdead
  /\ hst[p] = "est"
  /\ hres[p].qp = "live"
  /\ hrq[p] > 0
  /\ hin[p] < MaxIn
  /\ hrecv_msg' = [hrecv_msg EXCEPT ![p] = t]
  /\ hrq' = [hrq EXCEPT ![p] = @ - 1]
  /\ hcq' = [hcq EXCEPT ![p] = Append(@, HWc("RECV", TRUE))]
  /\ hin' = [hin EXCEPT ![p] = @ + 1]
  /\ UNCHANGED <<cOwn, hAux, cNet, alive, hWatchVars, hst, hq, hconn, hcid, hdead,
                 hexit, hres, hcs, hppc, hret, hsent, herr>>

\* The receive posted by the session of pod p completes with a status other
\* than IBV_WC_SUCCESS while its QP stays usable (a failure injected on the
\* connection).
HFailedCompletion(p) ==
  /\ ~hdead
  /\ hres[p].qp = "live"
  /\ hrq[p] > 0
  /\ hrq' = [hrq EXCEPT ![p] = @ - 1]
  /\ hcq' = [hcq EXCEPT ![p] = Append(@, HWc("RECV", FALSE))]
  /\ UNCHANGED <<cOwn, hAux, cNet, alive, hWatchVars, hst, hq, hconn, hcid, hdead,
                 hexit, hres, hcs, hppc, hret, hrecv_msg, hsent, hin, herr>>

\* rdma-agent.c on_completion, line 213: the tag the session accepts.
Expected(t) == t = MSG_DONE

\* rdma-agent.c poll_cq, lines 176-193, with on_completion, lines 197-233:
\* the drain ends on an empty CQ and the thread exits if ret is set;
\* otherwise the next completion is taken. A failed completion returns 1. A
\* RECV with an unexpected tag ends the process (exit(1)); with MSG_DONE the
\* receive state is set and the receive is posted again, which is flushed at
\* once on a QP in the error state. Any other completion is that of the SEND
\* of the MR message.
HPollCq(p) ==
  /\ ~hdead
  /\ hppc[p] = "poll"
  /\ IF hcq[p] = <<>>
     THEN /\ LeavesLoop(hret[p])
          /\ hppc' = [hppc EXCEPT ![p] = "done"]
          /\ UNCHANGED <<hcq, hret, herr, hcs, hrq, hdead, hexit>>
     ELSE
       /\ IF ~Head(hcq[p]).ok
          THEN /\ hret' = [hret EXCEPT ![p] = 1]
               /\ herr' = herr \cup {p}
               /\ hcq' = [hcq EXCEPT ![p] = Tail(@)]
               /\ UNCHANGED <<hcs, hrq, hdead, hexit, hppc>>
          ELSE /\ hconn[p] = "live"
               /\ IF Head(hcq[p]).op = "RECV"
                  THEN IF ~Expected(hrecv_msg[p])
                       THEN /\ hdead' = TRUE
                            /\ hexit' = "tag"
                            /\ hppc' = [hppc EXCEPT ![p] = "exit"]
                            /\ hcq' = [hcq EXCEPT ![p] = Tail(@)]
                            /\ UNCHANGED <<hcs, hrq, hret, herr>>
                       ELSE /\ hcs' = [hcs EXCEPT ![p].recv_state = RS_DONE_RECV]
                            /\ IF hres[p].qp = "live"
                               THEN /\ hrq' = [hrq EXCEPT ![p] = @ + 1]
                                    /\ hcq' = [hcq EXCEPT ![p] = Tail(@)]
                               ELSE /\ hcq' = [hcq EXCEPT ![p] =
                                                 Append(Tail(@), HWc("RECV", FALSE))]
                                    /\ UNCHANGED hrq
                            /\ hret' = [hret EXCEPT ![p] = 0]
                            /\ UNCHANGED <<hdead, hexit, hppc, herr>>
                  ELSE /\ hcs' = [hcs EXCEPT ![p].send_state = SS_MR_SENT]
                       /\ hret' = [hret EXCEPT ![p] = 0]
                       /\ hcq' = [hcq EXCEPT ![p] = Tail(@)]
                       /\ UNCHANGED <<hrq, hdead, hexit, hppc, herr>>
  /\ UNCHANGED <<cOwn, hAux, cNet, alive, hWatchVars, hst, hq, hconn, hcid, hres,
                 hrecv_msg, hsent, hin>>

\* rdma-agent.c on_completion, lines 213-227, for a successful completion
\* that is handled after destroy_connection has released the connection:
\* the access to released memory may end the process or go unnoticed.
HUseAfterFree(p) ==
  /\ ~hdead
  /\ hppc[p] = "poll"
  /\ hcq[p] # <<>>
  /\ Head(hcq[p]).ok
  /\ hconn[p] = "freed"
  /\ hcq' = [hcq EXCEPT ![p] = Tail(@)]
  /\ \E o \in UseAfterFree :
       /\ hdead' = (o = "crash")
       /\ hexit' = IF o = "crash" THEN "uaf" ELSE hexit
       /\ hret' = [hret EXCEPT ![p] = IF o = "crash" THEN @ ELSE 0]
  /\ UNCHANGED <<cOwn, hAux, cNet, alive, hWatchVars, hst, hq, hconn, hcid, hres,
                 hcs, hppc, hrq, hrecv_msg, hsent, hin, herr>>
(* --------------------------- specifications --------------------------- *)
TickNext == TickReset \/ TickSignal

\* The CM event thread while connections are set up.
CmSetup ==
  \/ CmConnectRequest
  \/ CmBuildAccept
  \/ CmEstablished

CmNext ==
  \/ CmSetup
  \/ CmTerminate
  \/ CmDestroy

\* Poller i while its connection works.
PollerRun(i) ==
  \/ PollCq(i)
  \/ GlobalCount(i)
  \/ FlagCheck(i)
  \/ SpuriousWake(i)
  \/ Post(i)
  \/ WildStoreCrash(i)

PollerNext(i) ==
  \/ PollerRun(i)
  \/ UafCrash(i)
  \/ PollExit(i)

\* A host agent as the peer of connection k.
PeerRun(k) ==
  \/ PeerEstablished(k)
  \/ PeerSendMr(k)
  \/ ReadComplete(k)

\* The collector with host agents as peers that connect, send their MR
\* message, serve READs and disconnect.
Next ==
  \/ TickNext
  \/ CmNext
  \/ \E i \in Conns : PollerNext(i)
  \/ PeerConnect
  \/ \E k \in Conns : PeerRun(k) \/ PeerDisconnect(k)

Spec == Init /\ [][Next]_vars

\* The collector with peers that stay connected, while time passes.
NextT ==
  \/ TickNext
  \/ CmSetup
  \/ \E i \in Conns : PollerRun(i)
  \/ PeerConnect
  \/ \E k \in Conns : PeerRun(k)
  \/ AdvanceClock

SpecT == Init /\ [][NextT]_vars

\* The two sides are started with any pair of block sizes, and a peer may
\* send any control message first.
InitMsg ==
  /\ audit = FALSE
  /\ num_mr \in 1 .. MaxMr
  /\ block_size \in BlockSizes
  /\ h_block_size \in BlockSizes
  /\ InitCollector
  /\ InitAgent

\* The first tick.
FirstTick == rounds = 0 /\ TickReset

NextMsg ==
  \/ FirstTick
  \/ TickSignal
  \/ CmSetup
  \/ \E i \in Conns : PollerRun(i) \/ PollExit(i)
  \/ PeerConnect
  \/ \E k \in Conns : PeerRun(k) \/ PeerSendOther(k) \/ ReadFails(k)

SpecMsg == InitMsg /\ [][NextMsg]_vars

\* Connection i has received MR and its poller waits for a tick with no READ
\* outstanding.
Settled(i) ==
  /\ pst[i] = "est"
  /\ conn[i].connected = 1
  /\ conn[i].recv_state = RS_MR_RECV
  /\ ppc[i] \in {"cwait", "lock"}
  /\ read_remote[i] = 0
  /\ num_read_completed[i] = num_mr
  /\ sq[i] = 0
  /\ cq[i] = <<>>

\* Every connection asked for is established and settled, and the tick
\* thread sleeps.
IdealReady ==
  /\ ~dead
  /\ tpc = "sleep"
  /\ reqs >= 1
  /\ num_connections = reqs
  /\ cmq = <<>>
  /\ cmpc = "idle"
  /\ \A i \in 0 .. (reqs - 1) : Settled(i)

\* A tick that comes when every batch of the tick before has completed.
IdealTickReset == IdealReady /\ TickReset

\* A connection asked for before the first tick.
IdealConnect == rounds = 0 /\ PeerConnect

\* Ideal conditions: the connections are established before the first tick,
\* none is torn down, and every batch completes before the next tick.
NextIdeal ==
  \/ IdealTickReset
  \/ TickSignal
  \/ CmSetup
  \/ \E i \in Conns : PollerRun(i)
  \/ IdealConnect
  \/ \E k \in Conns : PeerRun(k)

SpecIdeal == Init /\ [][NextIdeal]_vars

\* The session of pod p on the host agent, with its CM events.
HSession(p) ==
  \/ StartRdmaSession(p)
  \/ HOnAddrResolved(p)
  \/ HOnRouteResolved(p)
  \/ HEstablished(p)
  \/ HOnConnection(p)
  \/ HOnDisconnect(p)
  \/ HOnUnknownEvent(p)

PollPids == PollPidsStart \/ PollPidsSlot \/ PollPidsEnd

\* The host agent with its pods and watcher, and the CM event thread of the
\* collector.
NextHC ==
  \/ \E p \in Conns : HSession(p) \/ PodDies(p)
  \/ PollPids
  \/ CmNext

\* Every thread that can take a step eventually takes one, and the CM
\* delivers its events.
FairHC ==
  /\ \A p \in Conns : WF_vars(HSession(p))
  /\ WF_vars(PollPids)
  /\ WF_vars(CmNext)

SpecHC == Init /\ [][NextHC]_vars /\ FairHC

\* What the transport delivers to the session of pod p.
HTransport(p) ==
  \/ \E t \in {MSG_MR, MSG_DONE, MSG_OTHER} : ControlMessageArrives(p, t)
  \/ HFailedCompletion(p)

\* The READs of connection k complete, each with any status.
ReadOutcome(k) == ReadComplete(k) \/ FailedCompletion(k)

\* The session of pod p while it connects.
HSessionSetup(p) ==
  \/ HOnAddrResolved(p)
  \/ HOnRouteResolved(p)
  \/ HEstablished(p)
  \/ HOnConnection(p)

\* The host agent with pods that stay, and the CM event thread of the
\* collector: the sessions connect, and their pollers are given control
\* messages and failed completions.
NextHP ==
  \/ \E p \in Conns : StartRdmaSession(p) \/ HSessionSetup(p)
  \/ \E p \in Conns : HPollCq(p) \/ HTransport(p)
  \/ CmSetup

SpecHP == Init /\ [][NextHP]_vars

\* The first pod registers with the host agent.
FirstSession(p) == num_pods = 0 /\ StartRdmaSession(p)

\* The two programs with one pod that stays: the pod registers with the
\* host agent, whose session connects to the collector, and on either side
\* each completion may fail.
NextWc ==
  \/ FirstTick
  \/ TickSignal
  \/ CmSetup
  \/ \E i \in Conns : PollerRun(i) \/ PollExit(i)
  \/ \E p \in Conns : FirstSession(p) \/ HSessionSetup(p)
  \/ \E p \in Conns : HPollCq(p) \/ HTransport(p)
  \/ \E k \in Conns : ReadOutcome(k)

SpecWc == Init /\ [][NextWc]_vars

\* The first connection is asked for.
FirstConnect == reqs = 0 /\ PeerConnect

\* The collector with one peer, whose READs may fail and which may
\* disconnect.
NextErr ==
  \/ FirstTick
  \/ TickSignal
  \/ CmNext
  \/ \E i \in Conns : PollerNext(i)
  \/ FirstConnect
  \/ \E k \in Conns : PeerRun(k) \/ FailedCompletion(k) \/ PeerDisconnect(k)

\* Every thread of the collector that can take a step eventually takes one;
\* nothing is assumed of the peer.
FairErr ==
  /\ WF_vars(TickSignal)
  /\ WF_vars(CmNext)
  /\ \A i \in Conns : WF_vars(PollerNext(i))

SpecErr == Init /\ [][NextErr]_vars /\ FairErr

\* The collector while connections are built, any of which may fail to be
\* built, and served.
NextBuild ==
  \/ FirstTick
  \/ TickSignal
  \/ CmSetup
  \/ CmBuildFails
  \/ \E i \in Conns : PollerRun(i)
  \/ PeerConnect
  \/ \E k \in Conns : PeerRun(k)

SpecBuild == Init /\ [][NextBuild]_vars

\* The handlers of the host agent, each meeting any failure of its calls,
\* with the sessions they start and the CM event thread of the collector
\* admitting the connections.
NextPod ==
  \/ \E p \in Conns : \E o \in HandlerOutcomes : HandleNewPod(p, o)
  \/ \E p \in Conns : HSessionSetup(p)
  \/ CmSetup

SpecPod == Init /\ [][NextPod]_vars

\* The host agent with pods that register, die and come back, the watcher,
\* and the CM event thread of the collector admitting the connections.
NextReg ==
  \/ \E p \in Conns : StartRdmaSession(p) \/ HSessionSetup(p)
  \/ \E p \in Conns : HOnDisconnect(p) \/ HOnUnknownEvent(p)
  \/ \E p \in Conns : PodDies(p) \/ PodRestarts(p)
  \/ PollPids
  \/ CmSetup

SpecReg == Init /\ [][NextReg]_vars

\* The collector started with the accesses to its shared variables recorded.
InitAudit ==
  /\ audit = TRUE
  /\ num_mr = MaxMr
  /\ block_size = DefaultBlock
  /\ h_block_size = block_size
  /\ InitCollector
  /\ InitAgent

\* The threads of the collector during one round of the tick thread, with
\* peers that connect, send their MR message, serve READs and disconnect.
NextSync ==
  \/ FirstTick
  \/ TickSignal
  \/ CmNext
  \/ \E i \in Conns : PollerNext(i)
  \/ PeerConnect
  \/ \E k \in Conns : PeerRun(k) \/ PeerDisconnect(k)

SpecSync == InitAudit /\ [][NextSync]_vars

\* The steps poller i takes when it is scheduled.
PollerSteps(i) ==
  \/ PollCq(i)
  \/ GlobalCount(i)
  \/ FlagCheck(i)
  \/ Post(i)
  \/ PollExit(i)

\* The collector with one peer, which may disconnect, over the rounds of
\* the tick thread.
NextWake ==
  \/ TickNext
  \/ CmNext
  \/ \E i \in Conns : PollerNext(i)
  \/ FirstConnect
  \/ \E k \in Conns : PeerRun(k) \/ PeerDisconnect(k)

\* A poller that can take a step is scheduled; pthread_cond_wait is not
\* assumed to return without a signal.
FairWake == \A i \in Conns : WF_vars(PollerSteps(i))

SpecWake == Init /\ [][NextWake]_vars /\ FairWake

(* ------------------------------ properties ---------------------------- *)
\* READ completions of connection i that the poller has not taken yet.
PendingReads(i) == {n \in 1 .. Len(cq[i]) : cq[i][n].op = "READ" /\ cq[i][n].ok}

\* C1: a poller is about to post a batch only when the counter of completed
\* READs equals N and no READ of the connection is outstanding, neither on
\* the send queue nor as a completion not yet taken; the counter stays
\* within 0..N.
PostOnlyAfterFullBatch ==
  \A i \in Conns :
    /\ num_read_completed[i] \in 0 .. num_mr
    /\ ppc[i] = "post" =>
         /\ num_read_completed[i] = num_mr
         /\ sq[i] = 0
         /\ PendingReads(i) = {}

\* A poller is about to post its second batch of two READs.
SecondBatchReady ==
  \E i \in Conns : ppc[i] = "post" /\ posted[i] = 1 /\ num_mr = 2

\* C2: ticks that find the flag still set are not queued. The flag is 0 or 1,
\* and the batches posted on connection i never outnumber the ticks that
\* turned the flag from 0 to 1, less the one still pending in the flag.
MissedTicksNotReplayed ==
  \A i \in Conns :
    /\ read_remote[i] \in {0, 1}
    /\ posted[i] + read_remote[i] <= fresh[i]

\* Two ticks elapsed before poller i took the flag; it has posted one batch,
\* processed its completions and waits again with the flag cleared.
WaitsAgainAfterMissedTick ==
  \E i \in Conns :
    /\ ticksAt[i] >= 2
    /\ fresh[i] = 1
    /\ posted[i] = 1
    /\ ppc[i] = "cwait"
    /\ read_remote[i] = 0
    /\ num_read_completed[i] = num_mr

\* C3: the batches posted on connection i never outnumber the ticks that set
\* read_remote[i]; a poller about to post has cleared the flag of a tick no
\* earlier batch used; and a poller that tests the flag and finds it 0 does
\* not go on to post.
PostNeedsTick ==
  /\ [](\A i \in Conns :
          /\ posted[i] <= ticksAt[i]
          /\ ppc[i] = "post" => posted[i] < fresh[i] /\ read_remote[i] <= 1)
  /\ [][\A i \in Conns :
          ppc[i] = "lock" /\ read_remote[i] = 0 => ppc'[i] # "post"]_vars

\* Poller i, which has used every tick so far, tests the flag and finds it 0.
WakesWithFlagClear ==
  \E i \in Conns :
    /\ ppc[i] = "lock"
    /\ read_remote[i] = 0
    /\ posted[i] >= 1
    /\ posted[i] = ticksAt[i]

\* C4: a global round sample is recorded only when every active connection
\* has completed a batch posted after the tick that opened the round: no
\* connection is counted twice in a round and no batch posted before that
\* tick is counted.
GlobalSampleOnlyForFreshRound ==
  /\ ~hist.badRec
  /\ ~hist.stale
  /\ \A i \in Conns : counted[i] <= 1

\* C8: after the CM event thread has set terminate[i], poller i posts no READ
\* on the connection and does not dereference the released connection.
NoUseAfterTeardown ==
  \A i \in Conns : i \notin hist.uaf /\ i \notin hist.postTd

\* C5: READs are on the send queue of a connection only after an MR message
\* was received on it, and their remote address and rkey are those of that
\* message, whatever control message the peer sent first.
ReadsOnlyFromReceivedMr ==
  \A i \in Conns :
    posted[i] > 0 =>
      /\ sentMsg[i].type = MSG_MR
      /\ sqwr[i].raddr = sentMsg[i].mr.addr
      /\ sqwr[i].rkey = sentMsg[i].mr.rkey

\* C6: the descriptor C has stored is the one H sent in its MR message, and
\* the READs C has posted carry the remote address, the rkey and the length
\* of that descriptor, for every pair of block sizes of H and C.
ReadTargetsAdvertisedMr ==
  \A i \in Conns :
    /\ conn[i].recv_state = RS_MR_RECV /\ sentMsg[i].type = MSG_MR =>
         conn[i].peer_mr = sentMsg[i].mr
    /\ posted[i] > 0 /\ sentMsg[i].type = MSG_MR =>
         /\ sqwr[i].raddr = sentMsg[i].mr.addr
         /\ sqwr[i].rkey = sentMsg[i].mr.rkey
         /\ sqwr[i].len = sentMsg[i].mr.length

\* C7: once the process of a registered pod has ceased to exist, the
\* connection of the pod is eventually destroyed on H and on C, in whatever
\* state its CM id was when the pod died (a host agent process that has
\* exited holds no connection).
DeadPodIsTornDown ==
  \A p \in Conns :
    (hst[p] # "none" /\ ~alive[p])
      ~> \/ hdead
         \/ hconn[p] = "freed" /\ conn[hcid[p]].st = "freed"

\* C9: under ideal conditions, when the batches of a tick have completed,
\* every tick so far has given one global sample and one sample and N READ
\* completions on each connection, and the finished counter has reached the
\* number of connections; no round gives a second global sample and no
\* connection is counted twice in a round.
EveryTickOneRound ==
  /\ hist.grec <= 1
  /\ \A i \in Conns : counted[i] <= 1
  /\ global_lm.num_samples <= rounds
  /\ IdealReady /\ rounds >= 1 =>
       /\ global_lm.num_samples = rounds
       /\ global_lm.num_finished = num_connections
       /\ num_active_connections = num_connections
       /\ \A i \in 0 .. (num_connections - 1) :
            /\ hist.samples[i] = rounds
            /\ posted[i] = rounds
            /\ reads[i] = num_mr * rounds

\* Two connections have completed the batches of two ticks.
TwoRoundsOfTwoConnections ==
  IdealReady /\ rounds = 2 /\ num_connections = 2 /\ num_mr = 2

\* C10: in a tick in which a global sample has been recorded, the global
\* sample is not smaller than the sample any connection recorded in that
\* tick.
GlobalSampleCoversConnections ==
  hist.grec >= 1 =>
    \A i \in Conns : sampledAt[i] = rounds => global_lm.last >= lm[i].last

(* ------------------------- teardown and resources --------------------- *)
\* The place of a call in the order QP, MRs, buffers, CM id.
TdStep(e) ==
  CASE e.op = "destroy_qp" -> 1
    [] e.op = "dereg_mr" -> 2
    [] e.op = "free" -> 3
    [] OTHER -> 4

InOrder(log) ==
  \A a, b \in DOMAIN log : a < b => TdStep(log[a]) <= TdStep(log[b])

\* C11: every teardown that has run, on C and on H, destroyed the QP, then
\* deregistered all MRs of the connection, then freed its buffers, then
\* destroyed the CM id: no call of a later step comes before a call of an
\* earlier one.
TeardownInOrder ==
  /\ \A i \in Conns : InOrder(hist.td[i])
  /\ \A p \in Conns : InOrder(hres[p].td)

\* The buffer an MR is registered on.
Backing(mr) ==
  CASE mr[1] = "send_mr" -> <<"send_msg", 0>>
    [] mr[1] = "recv_mr" -> <<"recv_msg", 0>>
    [] mr[1] = "rdma_local_mr" -> <<"rdma_local_region", mr[2]>>
    [] OTHER -> <<"rdma_remote_region", 0>>

\* In log every MR of owned is deregistered, before the QP is destroyed, and
\* the QP is destroyed before the buffer of the MR is freed.
MrQpMemory(log, owned) ==
  \A q \in DOMAIN log :
    log[q].op = "destroy_qp" =>
      \A mr \in owned :
        /\ \E a \in DOMAIN log :
             a < q /\ log[a] = [op |-> "dereg_mr", obj |-> mr]
        /\ \A f \in DOMAIN log :
             log[f] = [op |-> "free", obj |-> Backing(mr)] => q < f

\* C12: the MRs a teardown deregisters are those the connection registered,
\* and each of them is deregistered before the QP of the connection is
\* destroyed, the QP before the memory of the MR is freed.
MrBeforeQpBeforeMemory ==
  /\ \A i \in Conns :
       /\ Deregistered(hist.td[i]) \subseteq ServerMrs
       /\ MrQpMemory(hist.td[i], ServerMrs)
  /\ \A p \in Conns :
       /\ Deregistered(hres[p].td) \subseteq AgentMrs
       /\ MrQpMemory(hres[p].td, AgentMrs)

\* C13: on H the page of a pod is released only when the QP of its session
\* is gone and its page MR is deregistered: in every state, and in the order
\* of the calls of every teardown that has run.
PageOutlivesConnection ==
  \A p \in Conns :
    /\ hres[p].page = "released" =>
         /\ hres[p].qp \in {"none", "destroyed"}
         /\ <<"rdma_remote_mr", 0>> \notin hres[p].mrs
    /\ PageFreeAt(hres[p].td) > 0 =>
         /\ \E a \in 1 .. (PageFreeAt(hres[p].td) - 1) :
              hres[p].td[a].op = "destroy_qp"
         /\ \E b \in 1 .. (PageFreeAt(hres[p].td) - 1) :
              hres[p].td[b] = Ev("dereg_mr", "rdma_remote_mr", 0)

\* The session of a pod has been torn down and its page is released, the
\* host agent running on.
PageReleasedAfterTeardown ==
  \E p \in Conns :
    /\ ~hdead
    /\ hst[p] = "closed"
    /\ hres[p].page = "released"
    /\ hres[p].qp = "destroyed"

\* The MRs registered, the QPs and the mapped pages of H and of C.
HostMrs == {x \in Conns \X AgentMrs : x[2] \in hres[x[1]].mrs}

HostQps == {p \in Conns : hres[p].qp \in {"live", "err"}}

MappedPages == {p \in Conns : hres[p].page = "mapped"}

CollectorMrs == {x \in Conns \X ServerMrs : x[2] \in conn[x[1]].mrs}

CollectorQps == {i \in Conns : qp[i] \in {"init", "rts", "err"}}

\* Every session H started and every connection C built has been torn
\* down, and both processes run.
AllTornDown ==
  /\ ~hdead
  /\ ~dead
  /\ \A p \in Conns : hst[p] \in {"none", "closed"}
  /\ \A i \in Conns : conn[i].st \in {"none", "freed"}
  /\ cmq = <<>>

\* C14: when every connection has been torn down, H and C hold no
\* registered MR, no QP and no mapped page, as before the first pod.
ResourcesBackToBaseline ==
  AllTornDown =>
    /\ HostMrs = {}
    /\ HostQps = {}
    /\ MappedPages = {}
    /\ CollectorMrs = {}
    /\ CollectorQps = {}

RecvStates == RS_INIT .. RS_DONE_RECV
SendStates == SS_INIT .. SS_DONE_SENT

\* C16: on C and on H the receive state and the send state of a connection
\* stay in their declared ranges, and no step decreases either of them,
\* whatever completions, successful or failed, the pollers are given.
StatesInRangeAndMonotone ==
  /\ [](\A i \in Conns :
          /\ conn[i].recv_state \in RecvStates
          /\ conn[i].send_state \in SendStates
          /\ hcs[i].recv_state \in RecvStates
          /\ hcs[i].send_state \in SendStates)
  /\ [][\A i \in Conns :
          /\ conn'[i].recv_state >= conn[i].recv_state
          /\ conn'[i].send_state >= conn[i].send_state
          /\ hcs'[i].recv_state >= hcs[i].recv_state
          /\ hcs'[i].send_state >= hcs[i].send_state]_vars

\* The pollers of both sides have moved both fields and have been given a
\* failed completion.
BothSidesAdvancedAndFailed ==
  /\ \E i \in Conns :
       /\ conn[i].recv_state = RS_MR_RECV
       /\ conn[i].send_state = SS_RDMA_SENT
       /\ i \in hist.err
  /\ \E p \in Conns :
       /\ hcs[p].recv_state = RS_DONE_RECV
       /\ hcs[p].send_state = SS_MR_SENT
       /\ p \in herr

\* C17: a poller that has been given a completion whose status is not
\* IBV_WC_SUCCESS holds ret # 0 until the drain ends and then leaves its
\* loop, whatever completions follow in the CQ, on C and on H.
FailedCompletionEndsPoller ==
  /\ \A i \in hist.err :
       \/ dead
       \/ ppc[i] \in {"fin", "done"}
       \/ ppc[i] = "poll" /\ LeavesLoop(ret[i])
  /\ \A p \in herr :
       \/ hdead
       \/ hppc[p] = "done"
       \/ hppc[p] = "poll" /\ LeavesLoop(hret[p])

\* C18: once a poller of C that was given a failed completion has exited
\* (its samples file is written in the exit), its connection is eventually
\* torn down: the QP destroyed, the MRs deregistered, the buffers freed.
ErrorExitLeadsToTeardown ==
  \A i \in Conns :
    (ppc[i] = "done" /\ i \in hist.err /\ ~dead) ~>
      \/ dead
      \/ /\ qp[i] = "destroyed"
         /\ conn[i].mrs = {}
         /\ conn[i].bufs = {}

\* Connection i has ended: its peer has disconnected, or its poller was
\* given a failed completion.
Ended(i) == pst[i] = "disc" \/ i \in hist.err

\* C19: when a connection has ended while another one is established, the
\* collector goes on running, so that the other connection is still served
\* on the ticks that follow (the pollers started with a clean sample
\* counter).
SurvivorsKeepRunning ==
  stack = 0 =>
    \A i, j \in Conns :
      i # j /\ Ended(i) /\ pst[j] = "est" /\ conn[j].connected = 1 => ~dead

\* C20: when the poller of a session has handled a control message with a
\* tag it does not expect while the session of another pod is established,
\* the host agent process goes on: the other session and the accept loop
\* stay.
UnexpectedTagEndsOnlyItsConnection ==
  \A p, q \in Conns :
    p # q /\ hppc[p] = "exit" /\ hst[q] = "est" => ~hdead

(* ------------------------------ failures ------------------------------ *)
\* C21: when a call fails while a connection is built and another
\* connection is established, the failure ends the connection being built
\* only: the collector process goes on and serves the other connection.
BuildFailureEndsOnlyItsConnection ==
  \A f \in hist.buildFail :
    \A j \in Conns :
      j # f[1] /\ pst[j] = "est" /\ conn[j].connected = 1 => ~dead

\* The calls of the handler of pod p that failed.
FailedCalls(p) ==
  {hlog.steps[p][n].call :
     n \in {m \in DOMAIN hlog.steps[p] : ~hlog.steps[p][m].ok}}

\* C22: when the handler of a pod fails (the pod id is not received, the
\* shared object is not created or not sized), the host agent process goes
\* on, and with it the sessions of the pods already connected.
HandlerFailureEndsOnlyItsHandler ==
  \A p \in Conns :
    FailedCalls(p) # {} =>
      \A q \in Conns : q # p /\ hst[q] = "est" => ~hdead

\* The places of the call c in the steps of the handler of pod p, and whether
\* it was made with success before step n.
DoneBefore(p, c, n) ==
  \E m \in DOMAIN hlog.steps[p] :
    m < n /\ hlog.steps[p][m] = Call(c, TRUE)

\* C24: in the steps of every handler, the name of the shared object is sent
\* only after the object has been created and sized with success, the socket
\* is closed and the page mapped after that, and the pod is entered in the
\* table of the control plane before the first CM event of its session is
\* waited for; a session that handles CM events is one whose handler has
\* entered the pod.
NameSentAfterObjectSized ==
  \A p \in Conns :
    /\ \A n \in DOMAIN hlog.steps[p] :
         /\ hlog.steps[p][n].call = "send" =>
              /\ DoneBefore(p, "recv", n)
              /\ DoneBefore(p, "shm_open", n)
              /\ DoneBefore(p, "ftruncate", n)
         /\ hlog.steps[p][n].call = "close" => DoneBefore(p, "send", n)
         /\ hlog.steps[p][n].call = "mmap" => DoneBefore(p, "close", n)
         /\ hlog.steps[p][n].call = "rdma_get_cm_event" =>
              DoneBefore(p, "mmap", n) /\ DoneBefore(p, "cp", n)
    /\ hst[p] # "none" =>
         \E n \in DOMAIN hlog.steps[p] : hlog.steps[p][n] = Call("cp", TRUE)

(* ------------------------------ watcher ------------------------------- *)
\* The calls of rdma_disconnect the watcher has made: each on a slot that
\* held a pid no process had, no two on one slot, each followed by the mark;
\* and a slot is marked by such a call only.
DisconnectCalls ==
  /\ \A d \in hlog.disc :
       d.pid # NoPid /\ ~d.exists /\ pod_pids[d.slot] = NoPid
  /\ \A d, e \in hlog.disc : d.slot = e.slot => d = e
  /\ \A s \in Conns :
       pod_pids[s] = NoPid => \E d \in hlog.disc : d.slot = s

\* A marked slot stays marked.
SentinelStays ==
  \A s \in Conns : pod_pids[s] = NoPid => pod_pids'[s] = NoPid

\* While the watcher scans it holds cp_mutex: no pod is entered, and a slot
\* changes only by the mark the watcher puts on the slot it looks at.
ScanUnderMutex ==
  wpc = "scan" /\ wpc' = "scan" =>
    /\ num_pods' = num_pods
    /\ cp_conn' = cp_conn
    /\ \A s \in Conns :
         pod_pids'[s] # pod_pids[s] => s = wi /\ pod_pids'[s] = NoPid

\* C23: the watcher scans under cp_mutex, calls rdma_disconnect for a slot
\* only if the slot is not marked and the process of its pod does not exist,
\* and marks the slot; a marked slot is never unmarked, so the call is made
\* at most once for a registration and never for a pod whose process exists.
WatcherDisconnectsOnce ==
  /\ []DisconnectCalls
  /\ [][SentinelStays]_vars
  /\ [][ScanUnderMutex]_vars

\* Both pods are registered, the process of one has ended, the watcher has
\* called rdma_disconnect for it, marked its slot and finished the scan.
WatcherHasDisconnected ==
  /\ num_pods = MaxConn
  /\ wpc = "sleep"
  /\ \E d \in hlog.disc : pod_pids[d.slot] = NoPid /\ ~alive[cp_conn[d.slot]]

(* ------------------------------ mutexes ------------------------------- *)
\* The recorded accesses to read_remote[i].
FlagAccesses(i) == {a \in hist.acc : a.obj = <<"read_remote", i>>}

\* Every access to read_remote[i] is made by a thread that holds lock[i];
\* the stores of 1 are the tick thread's, the stores of 0 poller i's.
FlagAccessesLocked ==
  \A i \in Conns :
    \A a \in FlagAccesses(i) :
      /\ Lock(i) \in a.held
      /\ a.op = "write1" => a.by = TickThread
      /\ a.op = "write0" => a.by = Poller(i)

\* A step that changes read_remote[i] is one of the recorded stores.
FlagChangeRecorded ==
  \A i \in Conns :
    read_remote'[i] # read_remote[i] =>
      \E a \in hist'.acc :
        a.obj = <<"read_remote", i>> /\ a.op = Store(read_remote'[i])

GlobalRoundOnlyUnderMutex ==
  \A a \in hist.acc : a.obj[1] \in GlobalFields => GlobalLock \in a.held

\* C27: every poller that exits writes the sample file of its connection,
\* and it writes the global file exactly if no other poller is active when
\* it exits.
GlobalFileByLastPoller ==
  \A e \in hist.exits :
    /\ <<"latency_samples", e.i>> \in e.files
    /\ <<"read_completion_latency", 0>> \in e.files <=> e.others = {}

(* ------------------------------ indices ------------------------------- *)
\* C28: whatever connections and pod registrations have happened, the
\* logical index of every connection lies in [0, RDMA_MAX_CONNECTIONS), on
\* the collector and on the host agent, and so does every index at which
\* the host agent has stored into the table of its control plane.
IndicesInRange ==
  /\ num_connections <= MaxConn
  /\ \A n \in hlog.lid : n \in Conns
  /\ \A n \in hlog.idx : n \in Conns

(* ------------------------------ one-sided ----------------------------- *)
\* The flags that give the peer access to an MR.
Remote(flags) == flags \cap {"REMOTE_READ", "REMOTE_WRITE", "REMOTE_ATOMIC"}

\* C29: the host agent posts only SENDs (and receives) and registers only
\* the page of the pod for remote access, with remote read alone; the
\* collector registers no MR with remote access, and the work requests it
\* posts on its send queue are READs.
OneSidedReadsByCollectorOnly ==
  /\ \A p \in Conns :
       /\ \A m \in hres[p].mrs :
            Remote(hres[p].access[m]) =
              IF m = <<"rdma_remote_mr", 0>> THEN {"REMOTE_READ"} ELSE {}
       /\ \A n \in DOMAIN hsent[p] : hsent[p][n].opcode = "SEND"
  /\ \A i \in Conns :
       /\ \A m \in conn[i].mrs : Remote(conn[i].access[m]) = {}
       /\ wr[i].opcode \in {"NONE", "RDMA_READ"}
       /\ sqwr[i].opcode \in {"NONE", "RDMA_READ"}

\* The session of a pod has registered its MRs and sent its MR message, and
\* the collector has posted READs on the connection and handled the
\* completion of one.
PageReadByCollector ==
  \E p \in Conns :
    /\ hres[p].mrs = AgentMrs
    /\ hsent[p] # <<>>
    /\ conn[hcid[p]].mrs = ServerMrs
    /\ sqwr[hcid[p]].opcode = "RDMA_READ"
    /\ reads[hcid[p]] > 0

(* ------------------------------ wake-up ------------------------------- *)
\* A poller that waits on the condition variable has found the flag at 0 and
\* no tick has set it since.
WaitsOnlyOnClearFlag ==
  \A i \in Conns : ppc[i] = "cwait" => read_remote[i] = 0

\* A poller that holds lock[i] and finds the flag at 1 does not wait.
NoWaitOnSetFlag ==
  \A i \in Conns :
    ppc[i] = "lock" /\ read_remote[i] = 1 /\ ppc'[i] # ppc[i] =>
      ppc'[i] # "cwait"

\* Poller i is ready to arm, the flag is set and n batches have been posted.
ArmedWith(i, n) ==
  ppc[i] \in {"lock", "cwait"} /\ read_remote[i] = 1 /\ posted[i] = n

\* Poller i has posted batch n + 1 (which it does after it has cleared the
\* flag), or its connection is being torn down, or the process has ended.
PostedAfter(i, n) ==
  \/ posted[i] > n
  \/ terminate[i] = 1
  \/ dead

\* C30: no wake-up is lost. A poller waits only while the flag is 0; when it
\* is ready to arm and a tick has set the flag, it eventually clears the
\* flag and posts a batch (unless its connection is torn down or the process
\* ends); and when it finds the flag at 1 it proceeds without waiting.
NoLostWakeUp ==
  /\ []WaitsOnlyOnClearFlag
  /\ [][NoWaitOnSetFlag]_vars
  /\ \A i \in Conns : \A n \in 0 .. MaxTicks :
       ArmedWith(i, n) ~> PostedAfter(i, n)

\* The tick thread has woken a waiting poller twice, and each time the
\* poller has cleared the flag and posted a batch.
WokenAndPosted ==
  \E i \in Conns :
    /\ fresh[i] = MaxTicks
    /\ posted[i] = MaxTicks
    /\ read_remote[i] = 0
    /\ terminate[i] = 0

(* ------------------------------ teardown ------------------------------ *)
\* The threads of the collector are scheduled: the tick thread, the CM event
\* thread and every poller that can take a step eventually take one;
\* pthread_cond_wait is not assumed to return without a signal.
FairDown ==
  /\ WF_vars(TickNext)
  /\ WF_vars(CmNext)
  /\ \A i \in Conns : WF_vars(PollerSteps(i))

\* The collector with one peer, which may disconnect, over the rounds of the
\* tick thread, with the accesses to the shared variables recorded.
SpecDown == InitAudit /\ [][NextWake]_vars /\ FairDown

\* The tick thread has still to signal slot i.
TickLeft(i) == rounds < MaxTicks \/ (tpc = "slot" /\ ti <= i)

\* Connection i has been torn down while its poller waits on the condition
\* variable, n batches posted.
TornDownWaiting(i, n) ==
  /\ terminate[i] = 1
  /\ ppc[i] = "cwait"
  /\ posted[i] = n
  /\ TickLeft(i)

\* Poller i has read terminate[i] under lock[i], has returned 1 from
\* on_completion and has left its loop, with n batches posted.
QuitWithoutPost(i, n) ==
  /\ ppc[i] = "done"
  /\ ret[i] = 1
  /\ posted[i] = n
  /\ Access("terminate", i, "read", Poller(i), {Lock(i)}) \in hist.acc

\* C31: when connection i is torn down while poller i waits on its condition
\* variable, the next tick wakes the poller, which reads terminate[i] = 1
\* under lock[i], returns the exit value from on_completion and ends without
\* posting another READ.
TornDownPollerQuits ==
  \A i \in Conns : \A n \in 0 .. MaxTicks :
    TornDownWaiting(i, n) ~> QuitWithoutPost(i, n)

\* A poller that waited when its connection was torn down has ended, no
\* completion having failed and no batch posted after the teardown.
TornDownPollerHasQuit ==
  \E i \in Conns :
    /\ i \in hist.tdw
    /\ ppc[i] = "done"
    /\ ret[i] = 1
    /\ i \notin hist.err
    /\ i \notin hist.postTd

\* C32: after a connection has been disconnected and torn down, its poller
\* eventually ends, on the collector (a tick being still to come for a
\* poller that waits on the condition variable) and on the host agent,
\* unless the process has ended.
PollerOfDestroyedConnectionExits ==
  /\ \A i \in Conns :
       (qp[i] = "destroyed" /\ ppc[i] # "idle" /\ TickLeft(i)) ~>
         (ppc[i] = "done" \/ dead)
  /\ \A p \in Conns :
       (hres[p].id = "destroyed" /\ hppc[p] # "idle") ~>
         (hppc[p] \in {"done", "exit"} \/ hdead)

(* ------------------------------ deadlock ------------------------------ *)
\* No access to a shared variable is made by a thread that holds two of the
\* mutexes lock[0..MAX) and lock_global_lm.
HeldMutexes == \A a \in hist.acc : Cardinality(a.held) <= 1

OneGlobalSamplePerTick == hist.grec <= 1

(* --------------------------- watcher and ids -------------------------- *)
\* The host agent with pods that register and die and the watcher, and the
\* collector, which admits the connections and whose process may end while
\* sessions are established.
NextGone ==
  \/ \E p \in Conns : StartRdmaSession(p) \/ HSessionSetup(p)
  \/ \E p \in Conns : HOnDisconnect(p) \/ HOnUnknownEvent(p)
  \/ \E p \in Conns : PodDies(p) \/ CollectorGone(p)
  \/ PollPids
  \/ CmNext
  \/ CmBuildFails

SpecGone == Init /\ [][NextGone]_vars

\* The slots of the table of the control plane that refer to the CM id of
\* pod p and are not marked.
LiveSlots(p) ==
  {s \in Conns : s < num_pods /\ cp_conn[s] = p /\ pod_pids[s] # NoPid}

\* No call of rdma_disconnect by the watcher was made on a destroyed CM id.
DisconnectsOnLiveIds == \A d \in hlog.disc : d.id # "destroyed"

\* C35: the watcher never calls rdma_disconnect on a CM id that the host
\* agent has destroyed: once the teardown of a session has destroyed its CM
\* id, whatever the cause of the DISCONNECTED event, no slot of the table of
\* the control plane that is not marked refers to it.
WatcherSparesDestroyedIds ==
  /\ DisconnectsOnLiveIds
  /\ \A p \in Conns : hres[p].id = "destroyed" => LiveSlots(p) = {}

(* --------------------------- active counter --------------------------- *)
\* C36: num_active_connections is never negative and, whenever the CM event
\* thread is not inside build_connection, equals the number of pollers that
\* have been started and have not exited.
ActiveCounterExact ==
  /\ num_active_connections >= 0
  /\ cmpc # "build2" => num_active_connections = Cardinality(Active)

\* record_time_elapsed, lines 609-613, has just stored into the buffer of
\* meter m: the store fell inside the buffer.
StoredInside(m) == 1 <= m.num_samples /\ m.num_samples <= m.size

\* C37: when a sample is stored in the meter of a connection or in the
\* global meter, the number of samples does not exceed the capacity of the
\* buffer.
SampleCountWithinCapacity ==
  /\ \A i \in Conns : ppc[i] = "glock" => StoredInside(lm[i])
  /\ hist.grec >= 1 => StoredInside(global_lm)

\* The host agent with pods that register, die and come back, the watcher,
\* and the CM event thread of the collector, which builds the connections
\* and tears them down.
NextCycle ==
  \/ \E p \in Conns : StartRdmaSession(p) \/ HSessionSetup(p)
  \/ \E p \in Conns : HOnDisconnect(p) \/ HOnUnknownEvent(p)
  \/ \E p \in Conns : PodDies(p) \/ PodRestarts(p)
  \/ PollPids
  \/ CmNext

SpecCycle == Init /\ [][NextCycle]_vars

\* The connections the collector has built: their pollers were started.
Built == {i \in Conns : ppc[i] # "idle"}

\* The indices in use on the collector are those below num_connections.
IndicesInOrder == Built = {i \in Conns : i < num_connections}

\* rdma-server.c build_connection: the connection built in this step gets
\* the index num_connections, above every index given before, and the
\* counter never goes back.
NewIndexAbove ==
  /\ num_connections' >= num_connections
  /\ \A i \in Conns :
       i \in Built /\ i \in Built' /\ ppc[i] = "done" => ppc'[i] = "done"
  /\ \A i \in Conns :
       i \notin Built /\ ppc'[i] # "idle" =>
         /\ i = num_connections
         /\ num_connections' = i + 1
         /\ \A j \in Built : j < i

\* destroy_connection is the only writer of terminate, and it stores 1.
TerminateStays == \A i \in Conns : terminate[i] = 1 => terminate'[i] = 1

\* rdma-agent.c build_connection: the session built in this step gets an
\* index that no session before it got.
AgentIndexFresh ==
  \A p \in Conns :
    hst[p] = "addr" /\ hst'[p] = "route" =>
      /\ hlog'.lid # hlog.lid
      /\ hnum_connections \notin hlog.lid

\* C38: logical indices are never shared or reused: on the collector each
\* connection built gets an index above all earlier ones, with its own
\* slots, and terminate[i] once set stays set; on the host agent no two
\* sessions get the same index.
IndicesNeverReused ==
  /\ []IndicesInOrder
  /\ [][NewIndexAbove /\ TerminateStays /\ AgentIndexFresh]_vars

\* A connection has been torn down and another built after it, for a pod
\* that came back, and the host agent has built two sessions.
IndexGivenAfterTeardown ==
  /\ terminate[0] = 1
  /\ num_connections = 2
  /\ hlog.restarts >= 1
  /\ Cardinality(hlog.lid) >= 2

\* The collector started with one region per connection, the counters of
\* the other variant being carried along.
InitCompared ==
  /\ audit = TRUE
  /\ num_mr = 1
  /\ block_size = DefaultBlock
  /\ h_block_size = block_size
  /\ InitCollector
  /\ InitAgent

\* The collector with peers that connect, send their MR message and serve
\* READs, each of which completes with any status; no peer disconnects and
\* no connection is torn down.
NextCompared ==
  \/ TickNext
  \/ CmSetup
  \/ \E i \in Conns : PollerRun(i) \/ PollExit(i)
  \/ PeerConnect
  \/ \E k \in Conns : PeerRun(k) \/ FailedCompletion(k)

SpecCompared == InitCompared /\ [][NextCompared]_vars

\* C39: with one region per connection and no connection torn down, the
\* two variants of the collector record a global round sample at the same
\* READ completions.
VariantsRecordAlike == Compared => ~hist.differ
====
